---- MODULE Spec2Model ----
(***************************************************************************)
(* A model of speedata/go-lua: the binary chunk writer (dump.go) and       *)
(* reader (undump.go, second half of src/types.go), the scanner's numeric  *)
(* literals (scanner.go), the integer conversions (types.go) and the       *)
(* call/upvalue machinery the virtual machine is specified to have.        *)
(*                                                                         *)
(* Representation.  TLC integers are 32 bits wide, so every 64-bit and     *)
(* 32-bit unsigned machine word is a numeral in base 256, most significant *)
(* byte first (a "word"); float64 values are the word of their IEEE-754    *)
(* bit pattern.  Lua strings are sequences of bytes.  Go's nil slice and   *)
(* empty slice are both the empty sequence.                                *)
(***************************************************************************)
EXTENDS Integers, Sequences, FiniteSets, TLC

VARIABLES
    order,        \* endianness(): the byte order of the platform
    pointerSize,  \* header.PointerSize: 4 or 8, the width of size_t
    proto,        \* the prototype handed to dump (NoProto when none)
    str,          \* the string handed to writeString (NoStr when none)
    chunk,        \* the bytes of the io.Writer / io.Reader
    pos,          \* number of bytes of chunk the loadState has consumed
    loaded,       \* what the reader returned: [p |-> prototype or string, err]
    lstack,       \* the State's stack after load / undump: pushed closures
    phase,        \* position of the dump / undump driver
    lit,          \* the numeric literal under the scanner, by its parts
    scanner,      \* the scanner: its reader's text and offset, current, buffer
    tok,          \* the token scan returned, or the error it threw
    argB, argC,   \* the operands of a conversion or of a shift
    numOut,       \* what the conversion or the shift returned
    stack,        \* the State's value stack
    callInfo,     \* the chain of call frames, the running one last
    upValueCells, \* every upValue object created, by its identity
    openUpValues, \* the identities of the open upvalues, sorted by stack slot
    closures,     \* the Lua closures created, each with the upvalue it captured
    nextAct,      \* the number of function activations so far
    tbl,          \* the table, or the tables, a table operation works on
    iter,         \* the traversals of tbl in progress: last key, keys seen
    libCall,      \* a library function call: the function and its arguments
    libRet,       \* what the library function returned, or the error it raised
    file          \* an open file: its bytes, its position, what it is tied to

dumpVars == <<order, pointerSize, proto, str, chunk, pos, loaded, lstack, phase>>

scanVars == <<lit, scanner, tok>>

numVars == <<argB, argC, numOut>>

vmVars == <<stack, callInfo, upValueCells, openUpValues, closures, nextAct>>

libVars == <<tbl, iter, libCall, libRet, file>>

\* no chunk is being written or read
IdleChunk ==
    /\ order = "LittleEndian" /\ pointerSize = 8
    /\ proto = [none |-> TRUE] /\ str = <<-1>>
    /\ chunk = <<>> /\ pos = 0
    /\ loaded = [c |-> [none |-> TRUE], err |-> "nil"]
    /\ lstack = <<>> /\ phase = "idle"

\* no literal is being scanned
IdleScan ==
    /\ lit = [kind |-> "none"]
    /\ scanner = [r |-> <<>>, at |-> 0, current |-> 0, buffer |-> <<>>]
    /\ tok = [t |-> "none"]

\* no number is being converted or shifted
IdleNum ==
    /\ argB = [t |-> "nil"] /\ argC = [t |-> "nil"]
    /\ numOut = [op |-> "none"]

\* no function is running
IdleVM ==
    /\ stack = <<>> /\ callInfo = <<>>
    /\ upValueCells = <<>> /\ openUpValues = <<>>
    /\ closures = <<>> /\ nextAct = 0

\* no table is worked on, no library function is called, no file is open
IdleLib ==
    /\ tbl = [none |-> TRUE] /\ iter = <<>>
    /\ libCall = [f |-> "none"] /\ libRet = [f |-> "none"]
    /\ file = [none |-> TRUE]

-----------------------------------------------------------------------------
(* Machine words                                                           *)

Byte == 0..255

Reverse(s) == [i \in 1..Len(s) |-> s[Len(s) + 1 - i]]

Zeros(n) == [i \in 1..n |-> 0]

\* int32(i) as a 4-byte word (two's complement; \div and % are floored)
Int32Word(i) ==
    << (i \div 16777216) % 256, (i \div 65536) % 256, (i \div 256) % 256, i % 256 >>

\* the int32 a 4-byte word stands for
WordInt32(w) ==
    (IF w[1] >= 128 THEN w[1] - 256 ELSE w[1]) * 16777216
        + w[2] * 65536 + w[3] * 256 + w[4]

\* uint64(size) / uint32(size) of a non-negative int below 2^31, as a word of n bytes
SizeWord(size, n) == Zeros(n - 4) \o Int32Word(size)

\* the value of a word of a size field when it fits an int; -1 when it is
\* larger than any buffer of the model (the read of that many bytes fails)
WordSize(w) ==
    LET n == Len(w)
        high == SubSeq(w, 1, n - 4)
        low == SubSeq(w, n - 3, n)
    IN  IF high = Zeros(n - 4) /\ low[1] < 128 THEN WordInt32(low) ELSE -1

-----------------------------------------------------------------------------
(* Values and prototypes                                                   *)

NilV == [t |-> "nil"]
BoolV(b) == [t |-> "bool", b |-> b]
IntV(w) == [t |-> "int64", w |-> w]
FloatV(w) == [t |-> "float64", w |-> w]
StrV(s) == [t |-> "string", s |-> s]

NoProto == [none |-> TRUE]
NoStr == <<-1>>

\* upValueDesc
UpValueDesc(name, isLocal, index) == [name |-> name, isLocal |-> isLocal, index |-> index]

\* localVariable
LocalVariable(name, startPC, endPC) == [name |-> name, startPC |-> startPC, endPC |-> endPC]

-----------------------------------------------------------------------------
(* dump.go                                                                 *)

\* dumpState.write: binary.Write lays a fixed-width word out in d.order
write(w) == IF order = "LittleEndian" THEN Reverse(w) ELSE w

writeInt(i) == write(Int32Word(i))

writeByte(b) == <<b % 256>>

writeBool(b) == IF b THEN writeByte(1) ELSE writeByte(0)

dumpTNil == 0
dumpTBoolean == 1
dumpTNumFlt == 3
dumpTNumInt == 19
dumpTShrStr == 4
dumpTLngStr == 20
maxShortLen == 40

writeStringOffByOne(s) ==
    LET size == Len(s) + 1
    IN  IF Len(s) = 0 THEN writeByte(0)
        ELSE IF size <= 255 THEN writeByte(size) \o s
        ELSE writeByte(255) \o write(SizeWord(size, pointerSize)) \o s

writeString(s) ==
    LET size == Len(s) + 1
    IN  IF Len(s) = 0 THEN writeByte(0)
        ELSE IF size < 255 THEN writeByte(size) \o s
        ELSE writeByte(255) \o write(SizeWord(size, pointerSize)) \o s

\* a sequence of byte strings laid end to end
RECURSIVE Flatten(_)
Flatten(ss) == IF ss = <<>> THEN <<>> ELSE Head(ss) \o Flatten(Tail(ss))

writeCode(p) ==
    writeInt(Len(p.code)) \o Flatten([i \in 1..Len(p.code) |-> write(p.code[i])])

writeConstant(o) ==
    CASE o.t = "nil" -> writeByte(dumpTNil)
      [] o.t = "bool" -> writeByte(dumpTBoolean) \o writeBool(o.b)
      [] o.t = "int64" -> writeByte(dumpTNumInt) \o write(o.w)
      [] o.t = "float64" -> writeByte(dumpTNumFlt) \o write(o.w)
      [] o.t = "string" ->
            (IF Len(o.s) <= maxShortLen THEN writeByte(dumpTShrStr)
                                        ELSE writeByte(dumpTLngStr))
            \o writeString(o.s)

writeConstants(p) ==
    writeInt(Len(p.constants))
        \o Flatten([i \in 1..Len(p.constants) |-> writeConstant(p.constants[i])])

writeUpvalues(p) ==
    writeInt(Len(p.upValues))
        \o Flatten([i \in 1..Len(p.upValues) |->
                        writeBool(p.upValues[i].isLocal) \o writeByte(p.upValues[i].index)])

writeLocalVariables(p) ==
    writeInt(Len(p.localVariables))
        \o Flatten([i \in 1..Len(p.localVariables) |->
                        writeString(p.localVariables[i].name)
                            \o writeInt(p.localVariables[i].startPC)
                            \o writeInt(p.localVariables[i].endPC)])

writeDebug53(p) ==
    writeInt(Len(p.lineInfo))
        \o Flatten([i \in 1..Len(p.lineInfo) |-> writeInt(p.lineInfo[i])])
        \o writeLocalVariables(p)
        \o writeInt(Len(p.upValues))
        \o Flatten([i \in 1..Len(p.upValues) |-> writeString(p.upValues[i].name)])

RECURSIVE dumpFunction(_)
dumpFunction(p) ==
    writeString(p.source)
        \o writeInt(p.lineDefined)
        \o writeInt(p.lastLineDefined)
        \o writeByte(p.parameterCount)
        \o writeBool(p.isVarArg)
        \o writeByte(p.maxStackSize)
        \o writeCode(p)
        \o writeConstants(p)
        \o writeUpvalues(p)
        \o writeInt(Len(p.prototypes))
        \o Flatten([i \in 1..Len(p.prototypes) |-> dumpFunction(p.prototypes[i])])
        \o writeDebug53(p)

-----------------------------------------------------------------------------
(* undump.go (src/types.go from line 466): the header                       *)

\* the fields of the header the platform writes, set by init()
header ==
    [ Signature |-> <<27, 76, 117, 97>>,
      Version |-> 83,
      Format |-> 0,
      Data |-> <<25, 147, 13, 10, 26, 10>>,
      IntSize |-> 4,
      PointerSize |-> pointerSize,
      InstructionSize |-> 4,
      IntegerSize |-> 8,
      NumberSize |-> 8,
      TestInt |-> <<0, 0, 0, 0, 0, 0, 86, 120>>,
      TestNum |-> <<64, 119, 40, 0, 0, 0, 0, 0>> ]

HeaderSize == 33

\* binary.Write of the header struct: the fields in order, the two numbers in d.order
dumpHeader ==
    header.Signature \o <<header.Version, header.Format>> \o header.Data
        \o <<header.IntSize, header.PointerSize, header.InstructionSize,
             header.IntegerSize, header.NumberSize>>
        \o write(header.TestInt) \o write(header.TestNum)

\* l.dump: header, the main function's upvalue count, the function
dump(p) == dumpHeader \o writeByte(Len(p.upValues)) \o dumpFunction(p)

\* Go's == on float64: NaN equals nothing, the two zeros are equal
FloatIsNaN(w) ==
    /\ w[1] % 128 = 127 /\ w[2] \div 16 = 15
    /\ (w[2] % 16 # 0 \/ SubSeq(w, 3, 8) # Zeros(6))

FloatIsZero(w) == w[1] % 128 = 0 /\ SubSeq(w, 2, 8) = Zeros(7)

FloatEq(a, b) ==
    /\ ~FloatIsNaN(a) /\ ~FloatIsNaN(b)
    /\ (a = b \/ (FloatIsZero(a) /\ FloatIsZero(b)))

NoErr == "nil"
ErrEOF == "EOF"
ErrUnexpectedEOF == "unexpected EOF"
ErrMakeSlice == "panic: makeslice: len out of range"
errUnknownConstantType == "lua: unknown constant type in lua binary"
errNotPrecompiledChunk == "lua: is not a precompiled chunk"
errVersionMismatch == "lua: version mismatch in precompiled chunk"
errIncompatible == "lua: incompatible precompiled chunk"
errCorrupted == "lua: corrupted precompiled chunk"

\* the result of a read: the value, the reader's position after it, the error
R(v, at, err) == [v |-> v, pos |-> at, err |-> err]

\* "if err != nil { return }": the rest F runs on the result r of a read that
\* succeeded; after an error the Go code returns at once, and the value
\* returned beside the error, which no caller uses, is the empty value
Then(r, F(_)) == IF r.err # NoErr THEN R(<<>>, r.pos, r.err) ELSE F(r)

\* loadState.read of n bytes at offset at: io.ReadFull consumes what is left
\* of a stream that is too short and reports the end of the stream
read(at, n) ==
    IF n <= Len(chunk) - at
    THEN R(SubSeq(chunk, at + 1, at + n), at + n, NoErr)
    ELSE R(<<>>, Len(chunk), IF at >= Len(chunk) THEN ErrEOF ELSE ErrUnexpectedEOF)

\* binary.Read of one fixed-width word in state.order
readWord(at, n) ==
    Then(read(at, n), LAMBDA r :
        R(IF order = "LittleEndian" THEN Reverse(r.v) ELSE r.v, r.pos, NoErr))

\* the struct binary.Read decodes from the 33 header bytes b
decodeHeader(b) ==
    [ Signature |-> SubSeq(b, 1, 4),
      Version |-> b[5],
      Format |-> b[6],
      Data |-> SubSeq(b, 7, 12),
      IntSize |-> b[13],
      PointerSize |-> b[14],
      InstructionSize |-> b[15],
      IntegerSize |-> b[16],
      NumberSize |-> b[17],
      TestInt |-> IF order = "LittleEndian" THEN Reverse(SubSeq(b, 18, 25)) ELSE SubSeq(b, 18, 25),
      TestNum |-> IF order = "LittleEndian" THEN Reverse(SubSeq(b, 26, 33)) ELSE SubSeq(b, 26, 33) ]

\* h == header on the struct: field by field, the float by float comparison
headerEqual(h) ==
    /\ h.Signature = header.Signature
    /\ h.Version = header.Version /\ h.Format = header.Format
    /\ h.Data = header.Data
    /\ h.IntSize = header.IntSize /\ h.PointerSize = header.PointerSize
    /\ h.InstructionSize = header.InstructionSize
    /\ h.IntegerSize = header.IntegerSize /\ h.NumberSize = header.NumberSize
    /\ h.TestInt = header.TestInt
    /\ FloatEq(h.TestNum, header.TestNum)

\* the verdict on a decoded header h, read up to offset at
headerVerdictDataFirst(h, at) ==
    IF headerEqual(h) THEN R(TRUE, at, NoErr)
    ELSE IF h.Data # header.Data THEN R(FALSE, at, errCorrupted)
    ELSE IF h.Signature # header.Signature THEN R(FALSE, at, errNotPrecompiledChunk)
    ELSE IF h.Version # header.Version \/ h.Format # header.Format
         THEN R(FALSE, at, errVersionMismatch)
    ELSE R(FALSE, at, errIncompatible)

headerVerdict(h, at) ==
    IF headerEqual(h) THEN R(TRUE, at, NoErr)
    ELSE IF h.Signature # header.Signature THEN R(FALSE, at, errNotPrecompiledChunk)
    ELSE IF h.Version # header.Version \/ h.Format # header.Format
         THEN R(FALSE, at, errVersionMismatch)
    ELSE IF h.Data # header.Data THEN R(FALSE, at, errCorrupted)
    ELSE R(FALSE, at, errIncompatible)

checkHeader(at) ==
    Then(read(at, HeaderSize), LAMBDA r : headerVerdict(decodeHeader(r.v), r.pos))

-----------------------------------------------------------------------------
(* undump.go: the function reader                                          *)

readByte(at) == Then(read(at, 1), LAMBDA r : R(r.v[1], r.pos, NoErr))

readBool(at) == Then(readByte(at), LAMBDA b : R(b.v # 0, b.pos, NoErr))

readInt(at) == Then(readWord(at, 4), LAMBDA w : R(WordInt32(w.v), w.pos, NoErr))

\* the size field of a string whose first byte is sizeByte, read at offset at
readStringSize(sizeByte, at) ==
    IF sizeByte = 255
    THEN Then(readWord(at, IF pointerSize = 8 THEN 8 ELSE 4), LAMBDA w :
             R(WordSize(w.v), w.pos, NoErr))
    ELSE R(sizeByte, at, NoErr)

readStringKeepNul(at) ==
    Then(readByte(at), LAMBDA b :
        IF b.v = 0 THEN R(<<>>, b.pos, NoErr)
        ELSE Then(readStringSize(b.v, b.pos), LAMBDA size :
                IF size.v = 0 THEN R(<<>>, size.pos, NoErr)
                ELSE IF size.v < 0 THEN read(size.pos, Len(chunk) + 1)
                ELSE read(size.pos, size.v)))

\* a size beyond the stream (WordSize < 0): the read of that many bytes fails
readString(at) ==
    Then(readByte(at), LAMBDA b :
        IF b.v = 0 THEN R(<<>>, b.pos, NoErr)
        ELSE Then(readStringSize(b.v, b.pos), LAMBDA size :
                IF size.v = 0 THEN R(<<>>, size.pos, NoErr)
                ELSE IF size.v < 0 THEN read(size.pos, Len(chunk) + 1)
                ELSE read(size.pos, size.v - 1)))

\* make of n elements and one binary.Read of them all, each width bytes
\* wide; Cut(bytes, i) is the i-th element of what was read
readArray(at, n, width, Cut(_, _)) ==
    IF n < 0 THEN R(<<>>, at, ErrMakeSlice)
    ELSE Then(IF n > Len(chunk) THEN read(at, Len(chunk) + 1) ELSE read(at, n * width),
              LAMBDA r : R([i \in 1..n |-> Cut(r.v, i)], r.pos, NoErr))

\* the i-th 4-byte word of b, in state.order
Word4(b, i) ==
    IF order = "LittleEndian" THEN Reverse(SubSeq(b, 4 * i - 3, 4 * i))
    ELSE SubSeq(b, 4 * i - 3, 4 * i)

readCode(at) ==
    Then(readInt(at), LAMBDA n :
        IF n.v = 0 THEN R(<<>>, n.pos, NoErr)
        ELSE readArray(n.pos, n.v, 4, Word4))

\* n structs {IsLocal, Index byte}
readUpValues(at) ==
    Then(readInt(at), LAMBDA n :
        IF n.v = 0 THEN R(<<>>, n.pos, NoErr)
        ELSE readArray(n.pos, n.v, 2,
                 LAMBDA b, i : UpValueDesc(<<>>, b[2 * i - 1] # 0, b[2 * i])))

RECURSIVE readLocalVariablesLoop(_, _)
readLocalVariablesLoop(at, n) ==
    IF n = 0 THEN R(<<>>, at, NoErr)
    ELSE Then(readString(at), LAMBDA name :
         Then(readInt(name.pos), LAMBDA startPC :
         Then(readInt(startPC.pos), LAMBDA endPC :
         Then(readLocalVariablesLoop(endPC.pos, n - 1), LAMBDA rest :
             R(<<LocalVariable(name.v, startPC.v, endPC.v)>> \o rest.v, rest.pos, NoErr)))))

readLocalVariables(at) ==
    Then(readInt(at), LAMBDA n :
        IF n.v = 0 THEN R(<<>>, n.pos, NoErr)
        ELSE IF n.v < 0 THEN R(<<>>, n.pos, ErrMakeSlice)
        ELSE readLocalVariablesLoop(n.pos, n.v))

readLineInfo(at) ==
    Then(readInt(at), LAMBDA n :
        IF n.v = 0 THEN R(<<>>, n.pos, NoErr)
        ELSE readArray(n.pos, n.v, 4, LAMBDA b, i : WordInt32(Word4(b, i))))

luaTNil == 0
luaTBoolean == 1
luaTNumFlt == 3
luaTNumInt == 19
luaTShrStr == 4
luaTLngStr == 20

\* one iteration of the loop of readConstants
readConstant(at) ==
    Then(readByte(at), LAMBDA t :
        IF t.v = luaTNil THEN R(NilV, t.pos, NoErr)
        ELSE IF t.v = luaTBoolean
             THEN Then(readBool(t.pos), LAMBDA b : R(BoolV(b.v), b.pos, NoErr))
        ELSE IF t.v = luaTNumFlt
             THEN Then(readWord(t.pos, 8), LAMBDA w : R(FloatV(w.v), w.pos, NoErr))
        ELSE IF t.v = luaTNumInt
             THEN Then(readWord(t.pos, 8), LAMBDA w : R(IntV(w.v), w.pos, NoErr))
        ELSE IF t.v = luaTShrStr \/ t.v = luaTLngStr
             THEN Then(readString(t.pos), LAMBDA s : R(StrV(s.v), s.pos, NoErr))
        ELSE R(<<>>, t.pos, errUnknownConstantType))

RECURSIVE readConstantsLoop(_, _)
readConstantsLoop(at, n) ==
    IF n = 0 THEN R(<<>>, at, NoErr)
    ELSE Then(readConstant(at), LAMBDA c :
         Then(readConstantsLoop(c.pos, n - 1), LAMBDA rest :
             R(<<c.v>> \o rest.v, rest.pos, NoErr)))

readConstants(at) ==
    Then(readInt(at), LAMBDA n :
        IF n.v = 0 THEN R(<<>>, n.pos, NoErr)
        ELSE IF n.v < 0 THEN R(<<>>, n.pos, ErrMakeSlice)
        ELSE readConstantsLoop(n.pos, n.v))

\* the loop of readDebug53 over the upvalue names: i < n and i < len(p.upValues)
RECURSIVE readUpValueNames(_, _, _, _)
readUpValueNames(at, upValues, i, n) ==
    IF ~(i < n /\ i < Len(upValues)) THEN R(upValues, at, NoErr)
    ELSE Then(readString(at), LAMBDA name :
             readUpValueNames(name.pos, [upValues EXCEPT ![i + 1].name = name.v], i + 1, n))

\* the value is <<lineInfo, localVariables, p.upValues with their names>>
readDebug53(upValues, at) ==
    Then(readLineInfo(at), LAMBDA lineInfo :
    Then(readLocalVariables(lineInfo.pos), LAMBDA localVariables :
    Then(readInt(localVariables.pos), LAMBDA n :
    Then(readUpValueNames(n.pos, upValues, 0, n.v), LAMBDA names :
        R(<<lineInfo.v, localVariables.v, names.v>>, names.pos, NoErr)))))

RECURSIVE readFunction(_), readPrototypesLoop(_, _)
readPrototypesLoop(at, n) ==
    IF n = 0 THEN R(<<>>, at, NoErr)
    ELSE Then(readFunction(at), LAMBDA f :
         Then(readPrototypesLoop(f.pos, n - 1), LAMBDA rest :
             R(<<f.v>> \o rest.v, rest.pos, NoErr)))

readPrototypes(at) ==
    Then(readInt(at), LAMBDA n :
        IF n.v = 0 THEN R(<<>>, n.pos, NoErr)
        ELSE IF n.v < 0 THEN R(<<>>, n.pos, ErrMakeSlice)
        ELSE readPrototypesLoop(n.pos, n.v))

\* readFunction up to the code: the value is <<source, lineDefined,
\* lastLineDefined, parameterCount, isVarArg, maxStackSize>>
readFunctionHead(at) ==
    Then(readString(at), LAMBDA source :
    Then(readInt(source.pos), LAMBDA lineDefined :
    Then(readInt(lineDefined.pos), LAMBDA lastLineDefined :
    Then(readByte(lastLineDefined.pos), LAMBDA parameterCount :
    Then(readByte(parameterCount.pos), LAMBDA isVarArg :
    Then(readByte(isVarArg.pos), LAMBDA maxStackSize :
        R(<<source.v, lineDefined.v, lastLineDefined.v, parameterCount.v,
            isVarArg.v, maxStackSize.v>>, maxStackSize.pos, NoErr)))))))

\* readFunction from the code to the upvalue descriptors: the value is
\* <<code, constants, upValues>>
readFunctionBody(at) ==
    Then(readCode(at), LAMBDA code :
    Then(readConstants(code.pos), LAMBDA constants :
    Then(readUpValues(constants.pos), LAMBDA upValues :
        R(<<code.v, constants.v, upValues.v>>, upValues.pos, NoErr))))

readFunction(at) ==
    Then(readFunctionHead(at), LAMBDA head :
    Then(readFunctionBody(head.pos), LAMBDA body :
    Then(readPrototypes(body.pos), LAMBDA prototypes :
    Then(readDebug53(body.v[3], prototypes.pos), LAMBDA debug :
        R([ source |-> head.v[1],
            lineDefined |-> head.v[2],
            lastLineDefined |-> head.v[3],
            parameterCount |-> head.v[4],
            isVarArg |-> head.v[5] # 0,
            maxStackSize |-> head.v[6],
            code |-> body.v[1],
            constants |-> body.v[2],
            upValues |-> debug.v[3],
            prototypes |-> prototypes.v,
            lineInfo |-> debug.v[1],
            localVariables |-> debug.v[2] ],
          debug.pos, NoErr)))))

-----------------------------------------------------------------------------
(* Closures over a loaded prototype                                        *)

NoClosure == [none |-> TRUE]
NilUpValue == [home |-> NilV]

\* stack.go is not part of the sources: a Lua closure is (prototype,
\* upvalues[]) with one upvalue per upvalue descriptor of the prototype
newLuaClosure(p) ==
    [prototype |-> p, upValues |-> [i \in 1..Len(p.upValues) |-> NilUpValue]]

\* what undump returns: the closure c, the error, and what it pushed
U(c, at, err) ==
    [c |-> c, err |-> err, pos |-> at, push |-> IF err = NoErr THEN <<c>> ELSE <<>>]

\* "if err != nil { return }" in undump: c stays nil and nothing is pushed
ThenU(r, F(_)) == IF r.err # NoErr THEN U(NoClosure, r.pos, r.err) ELSE F(r)

undumpCountFromHeader ==
    ThenU(checkHeader(0), LAMBDA h :
    ThenU(readByte(h.pos), LAMBDA b :
    ThenU(readFunction(b.pos), LAMBDA f :
        U([prototype |-> f.v, upValues |-> [i \in 1..b.v |-> NilUpValue]], f.pos, NoErr))))

\* State.undump on the reader over chunk.  The chunk name only picks the
\* name of the chunk in messages and is not modelled.
undump ==
    ThenU(checkHeader(0), LAMBDA h :
    ThenU(readByte(h.pos), LAMBDA b :
    ThenU(readFunction(b.pos), LAMBDA f :
        U(newLuaClosure(f.v), f.pos, NoErr))))

-----
(* The prototypes and strings the writer is run on                         *)

\* strings of the lengths around the one-byte / size_t switch are tried up to here
MaxStrLen == 256
\* depth of nesting of the prototypes tried
MaxDepth == 2
\* number of header bytes a foreign chunk may differ in
MaxCorrupt == 2

\* n bytes, among them 0x00 and 0xFF
Bytes(n) == [i \in 1..n |-> (i * 51) % 256]

StrLens == {0, 1, 2, maxShortLen, maxShortLen + 1} \cup ((MaxStrLen - 4)..MaxStrLen)

Strs == {Bytes(n) : n \in StrLens}

ConstantLists ==
    { <<>>,
      << NilV, BoolV(TRUE), BoolV(FALSE),
         IntV(<<255, 255, 255, 255, 255, 255, 255, 255>>),
         IntV(<<63, 240, 0, 0, 0, 0, 0, 0>>), FloatV(<<63, 240, 0, 0, 0, 0, 0, 0>>),
         FloatV(<<127, 248, 0, 0, 0, 0, 0, 1>>), FloatV(<<128, 0, 0, 0, 0, 0, 0, 0>>),
         StrV(<<>>), StrV(Bytes(maxShortLen)), StrV(Bytes(maxShortLen + 1)) >>,
      << StrV(Bytes(MaxStrLen - 2)), IntV(<<128, 0, 0, 0, 0, 0, 0, 0>>),
         StrV(Bytes(MaxStrLen - 3)) >> }

UpValueLists ==
    { <<>>,
      << UpValueDesc(<<95, 69, 78, 86>>, TRUE, 0) >>,
      << UpValueDesc(<<>>, FALSE, 255), UpValueDesc(Bytes(MaxStrLen - 1), TRUE, 1) >> }

Leaves ==
    { [ source |-> src,
        lineDefined |-> meta[1],
        lastLineDefined |-> meta[2],
        parameterCount |-> meta[3],
        isVarArg |-> meta[4],
        maxStackSize |-> meta[5],
        code |-> cd,
        constants |-> k,
        upValues |-> uv,
        prototypes |-> <<>>,
        lineInfo |-> IF cd = <<>> THEN <<>> ELSE <<1, 70000>>,
        localVariables |-> lv ] :
      src \in {<<>>, <<64, 120>>, Bytes(MaxStrLen - 2)},
      meta \in {<<0, 0, 0, TRUE, 2>>, <<3, 2147483647, 255, FALSE, 255>>},
      cd \in {<<>>, << <<0, 128, 0, 38>>, <<255, 255, 255, 254>> >>},
      k \in ConstantLists,
      uv \in UpValueLists,
      lv \in {<<>>, << LocalVariable(<<105>>, 0, 5), LocalVariable(Bytes(MaxStrLen - 1), 2, 3) >>} }

\* two prototypes to nest: a bare one and a full one
Kid(full) ==
    [ source |-> IF full THEN Bytes(MaxStrLen - 2) ELSE <<>>,
      lineDefined |-> IF full THEN 7 ELSE 0,
      lastLineDefined |-> IF full THEN 9 ELSE 0,
      parameterCount |-> IF full THEN 2 ELSE 0,
      isVarArg |-> ~full,
      maxStackSize |-> IF full THEN 255 ELSE 2,
      code |-> IF full THEN << <<0, 128, 0, 38>> >> ELSE <<>>,
      constants |-> IF full THEN << StrV(Bytes(MaxStrLen - 2)), NilV >> ELSE <<>>,
      upValues |-> IF full THEN << UpValueDesc(<<120>>, TRUE, 3) >> ELSE <<>>,
      prototypes |-> <<>>,
      lineInfo |-> IF full THEN <<8>> ELSE <<>>,
      localVariables |-> IF full THEN << LocalVariable(<<97, 98>>, 0, 1) >> ELSE <<>> ]

\* the prototypes nested exactly d deep
RECURSIVE Nested(_)
Nested(d) ==
    IF d = 0 THEN {Kid(TRUE), Kid(FALSE)}
    ELSE { [k EXCEPT !.prototypes = kids] :
              k \in {Kid(TRUE), Kid(FALSE)},
              kids \in {<<a>> : a \in Nested(d - 1)}
                          \cup {<<Kid(TRUE), a, Kid(FALSE)>> : a \in Nested(d - 1)} }

Protos == Leaves \cup UNION {Nested(d) : d \in 0..MaxDepth}

\* the prototype whose chunk is also read with a damaged header
HeaderProto == Kid(TRUE)

NoLoad == [c |-> NoClosure, err |-> NoErr]

InitChunk ==
    /\ order \in {"LittleEndian", "BigEndian"}
    /\ pointerSize \in {4, 8}
    /\ \/ proto \in Protos /\ str = NoStr
       \/ proto = NoProto /\ str \in Strs
    /\ chunk = <<>>
    /\ pos = 0
    /\ loaded = NoLoad
    /\ lstack = <<>>
    /\ phase = "start"
    /\ IdleScan /\ IdleNum /\ IdleVM /\ IdleLib

\* l.dump(p, w) into an empty writer
Dump ==
    /\ phase = "start" /\ proto # NoProto
    /\ chunk' = dump(proto)
    /\ phase' = "dumped"
    /\ UNCHANGED <<order, pointerSize, proto, str, pos, loaded, lstack>>
    /\ UNCHANGED <<scanVars, numVars, vmVars, libVars>>

\* a chunk of another writer: the byte after the header, the main function's
\* upvalue count, is whatever that writer put there
ForeignUpValueCount ==
    /\ phase = "dumped" /\ chunk = dump(proto)
    /\ \E b \in {0, 1, 255} :
          /\ b # chunk[HeaderSize + 1]
          /\ chunk' = [chunk EXCEPT ![HeaderSize + 1] = b]
    /\ UNCHANGED <<order, pointerSize, proto, str, pos, loaded, lstack, phase>>
    /\ UNCHANGED <<scanVars, numVars, vmVars, libVars>>

\* a chunk of another platform or version: some header byte differs
ForeignHeader ==
    /\ phase = "dumped" /\ proto = HeaderProto
    /\ Len(chunk) = Len(dump(proto))
    /\ chunk[HeaderSize + 1] = Len(proto.upValues)
    /\ Cardinality({i \in 1..HeaderSize : chunk[i] # dumpHeader[i]}) < MaxCorrupt
    /\ \E i \in 1..HeaderSize :
          /\ chunk[i] = dumpHeader[i]
          /\ \A j \in i..HeaderSize : chunk[j] = dumpHeader[j]
          /\ chunk' = [chunk EXCEPT ![i] = (chunk[i] + 1) % 256]
    /\ UNCHANGED <<order, pointerSize, proto, str, pos, loaded, lstack, phase>>
    /\ UNCHANGED <<scanVars, numVars, vmVars, libVars>>

\* a chunk cut short inside its header
Truncated ==
    /\ phase = "dumped" /\ proto = HeaderProto
    /\ chunk = dump(proto)
    /\ \E n \in 0..(HeaderSize - 1) : chunk' = SubSeq(chunk, 1, n)
    /\ UNCHANGED <<order, pointerSize, proto, str, pos, loaded, lstack, phase>>
    /\ UNCHANGED <<scanVars, numVars, vmVars, libVars>>

\* l.undump(in, name) on a reader over chunk
Undump ==
    /\ phase = "dumped"
    /\ LET u == undump
       IN  /\ loaded' = [c |-> u.c, err |-> u.err]
           /\ pos' = u.pos
           /\ lstack' = lstack \o u.push
    /\ phase' = "undumped"
    /\ UNCHANGED <<order, pointerSize, proto, str, chunk>>
    /\ UNCHANGED <<scanVars, numVars, vmVars, libVars>>

\* loading from source: the parser (not part of the sources) hands its
\* prototype to newLuaClosure and pushes the closure
LoadSource ==
    /\ phase = "start" /\ proto # NoProto
    /\ loaded' = [c |-> newLuaClosure(proto), err |-> NoErr]
    /\ lstack' = Append(lstack, newLuaClosure(proto))
    /\ phase' = "compiled"
    /\ UNCHANGED <<order, pointerSize, proto, str, chunk, pos>>
    /\ UNCHANGED <<scanVars, numVars, vmVars, libVars>>

\* d.writeString(s) into an empty writer
WriteString ==
    /\ phase = "start" /\ str # NoStr
    /\ chunk' = writeString(str)
    /\ phase' = "written"
    /\ UNCHANGED <<order, pointerSize, proto, str, pos, loaded, lstack>>
    /\ UNCHANGED <<scanVars, numVars, vmVars, libVars>>

\* state.readString() on a reader over chunk
ReadString ==
    /\ phase = "written"
    /\ LET r == readString(0)
       IN  /\ loaded' = [c |-> r.v, err |-> r.err]
           /\ pos' = r.pos
    /\ phase' = "read"
    /\ UNCHANGED <<order, pointerSize, proto, str, chunk, lstack>>
    /\ UNCHANGED <<scanVars, numVars, vmVars, libVars>>

NextChunk ==
    \/ Dump
    \/ ForeignUpValueCount
    \/ ForeignHeader
    \/ Truncated
    \/ Undump
    \/ LoadSource
    \/ WriteString
    \/ ReadString

vars == <<dumpVars, scanVars, numVars, vmVars, libVars>>

SpecChunk == InitChunk /\ [][NextChunk]_vars

-----------------------------------------------------------------------------
(* Properties of the chunk writer and reader                               *)

\* C1: undump applied to the bytes written by dump(p) returns no error and a
\* closure whose prototype equals p field by field (source, lines, parameter
\* count, vararg flag, stack size, code, constants with their integer/float
\* tag, upvalue descriptors and names, nested prototypes, line info, local
\* variables), having consumed the whole chunk.
RoundTrip ==
    (phase = "undumped" /\ chunk = dump(proto))
        => /\ loaded.err = NoErr
           /\ loaded.c.prototype = proto
           /\ pos = Len(chunk)

\* a chunk with a nested prototype, a 254-byte source and a 254-byte string
\* constant has been dumped and loaded again
RoundTripWitness ==
    /\ phase = "undumped" /\ chunk = dump(proto)
    /\ proto.prototypes # <<>>
    /\ Len(proto.source) = 254
    /\ \E i \in 1..Len(proto.constants) :
          proto.constants[i].t = "string" /\ Len(proto.constants[i].s) = 254
    /\ loaded.err = NoErr

\* the header error the bytes hb call for, by the precedence: signature,
\* version or format, data-check string, anything else
HeaderErrorOf(hb) ==
    IF hb = dumpHeader THEN NoErr
    ELSE IF SubSeq(hb, 1, 4) # SubSeq(dumpHeader, 1, 4) THEN errNotPrecompiledChunk
    ELSE IF SubSeq(hb, 5, 6) # SubSeq(dumpHeader, 5, 6) THEN errVersionMismatch
    ELSE IF SubSeq(hb, 7, 12) # SubSeq(dumpHeader, 7, 12) THEN errCorrupted
    ELSE errIncompatible

\* C2: on a chunk holding all 33 header bytes, checkHeader returns no error
\* exactly when they are the expected header, and otherwise the one error the
\* precedence signature / version or format / data-check string / rest picks;
\* after any header error (also of a header cut short) undump has read
\* nothing past the header, returned no closure and pushed nothing.
HeaderCheck ==
    /\ (phase \in {"dumped", "undumped"} /\ Len(chunk) >= HeaderSize)
          => checkHeader(0).err = HeaderErrorOf(SubSeq(chunk, 1, HeaderSize))
    /\ (phase = "undumped" /\ checkHeader(0).err # NoErr)
          => /\ loaded.err = checkHeader(0).err
             /\ loaded.c = NoClosure
             /\ lstack = <<>>
             /\ pos <= HeaderSize

\* undump has refused a chunk whose data-check string and whose int size both
\* differ: the earlier test decides
HeaderCheckWitness ==
    /\ phase = "undumped"
    /\ loaded.err = errCorrupted
    /\ chunk[13] # dumpHeader[13]
    /\ lstack = <<>>

\* the number a size_t field of the platform stands for (below 2^24)
SizeFieldValue(b) ==
    LET le == IF order = "LittleEndian" THEN b ELSE Reverse(b)
    IN  IF \A i \in 4..Len(le) : le[i] = 0
        THEN le[1] + 256 * le[2] + 65536 * le[3]
        ELSE -1

\* C3: writeString emits the single byte 0 for the empty string; otherwise,
\* with n = len(s)+1, the byte n and the bytes of s when n < 255, and the byte
\* 0xFF, n as a size_t and the bytes of s when n >= 255, with no terminating
\* byte; readString returns exactly s from these bytes.
StringEncoding ==
    /\ phase \in {"written", "read"} =>
          LET n == Len(str) + 1
          IN  IF Len(str) = 0 THEN chunk = <<0>>
              ELSE IF n < 255 THEN chunk = <<n>> \o str
              ELSE /\ Len(chunk) = 1 + pointerSize + Len(str)
                   /\ chunk[1] = 255
                   /\ SizeFieldValue(SubSeq(chunk, 2, 1 + pointerSize)) = n
                   /\ SubSeq(chunk, 2 + pointerSize, Len(chunk)) = str
    /\ phase = "read" => loaded.err = NoErr /\ loaded.c = str /\ pos = Len(chunk)

\* a string of 254 bytes, the shortest with a size_t length, was written and read
StringEncodingWitness ==
    /\ phase = "read" /\ Len(str) = 254
    /\ chunk[1] = 255
    /\ loaded.c = str

-----------------------------------------------------------------------------
(* Unbounded and 64-bit arithmetic on numerals                              *)

\* the bytes v (least significant first) times m plus the carry d, for
\* m <= 256 and d < 256: one byte longer than v, the last byte the carry out
RECURSIVE MulAddLE(_, _, _)
MulAddLE(v, m, d) ==
    IF v = <<>> THEN <<d>>
    ELSE <<(v[1] * m + d) % 256>> \o MulAddLE(Tail(v), m, (v[1] * m + d) \div 256)

\* the numeral w (base 256, most significant byte first) times m plus d: one
\* byte longer than w, the first byte the carry out
MulAdd(w, m, d) == Reverse(MulAddLE(Reverse(w), m, d))

\* uint64 arithmetic: w*m + d with the carry out of the 8 bytes dropped
WordMulAdd(w, m, d) == Tail(MulAdd(w, m, d))

\* a numeral without its leading zero bytes
Strip(w) ==
    IF \A i \in 1..Len(w) : w[i] = 0 THEN <<>>
    ELSE SubSeq(w, CHOOSE i \in 1..Len(w) : w[i] # 0 /\ \A j \in 1..(i - 1) : w[j] = 0,
                Len(w))

\* the natural number written with the digits ds in base m <= 16, least
\* significant byte first: two digits are one digit in base m*m
RECURSIVE NatOfDigitsLE(_, _)
NatOfDigitsLE(ds, m) ==
    IF ds = <<>> THEN <<>>
    ELSE IF Len(ds) = 1 THEN ds
    ELSE MulAddLE(NatOfDigitsLE(SubSeq(ds, 1, Len(ds) - 2), m), m * m,
                  ds[Len(ds) - 1] * m + ds[Len(ds)])

\* the natural number written with the digits ds in base m, as a numeral
NatOfDigits(ds, m) == Reverse(NatOfDigitsLE(ds, m))

\* the low 64 bits of a numeral, as a word
Low64(w) ==
    IF Len(w) >= 8 THEN SubSeq(w, Len(w) - 7, Len(w)) ELSE Zeros(8 - Len(w)) \o w

\* a < b for sequences of equal length, position by position
LexLess(a, b) ==
    \E i \in 1..Len(a) : a[i] < b[i] /\ \A j \in 1..(i - 1) : a[j] = b[j]

\* a < b for numerals
NatLess(a, b) ==
    \/ Len(Strip(a)) < Len(Strip(b))
    \/ Len(Strip(a)) = Len(Strip(b)) /\ LexLess(Strip(a), Strip(b))

\* the int a numeral stands for when below 2^30, else 2^30
SmallInt(w) ==
    LET v == Strip(w)
    IN  IF Len(v) > 4 \/ (Len(v) = 4 /\ v[1] >= 64) THEN 1073741824
        ELSE WordInt32(Zeros(4 - Len(v)) \o v)

\* maxInt64 as a word
maxInt64 == <<127, 255, 255, 255, 255, 255, 255, 255>>

-----------------------------------------------------------------------------
(* strconv, as the scanner uses it                                          *)

ErrSyntax == "strconv: invalid syntax"
ErrRange == "strconv: value out of range"

\* the runes numeric literals are written with
ch ==
    [ zero |-> 48, nine |-> 57, a |-> 97, f |-> 102, A |-> 65, F |-> 70,
      x |-> 120, X |-> 88, p |-> 112, P |-> 80, e |-> 101, E |-> 69,
      dot |-> 46, plus |-> 43, minus |-> 45 ]

isDecimal(c) == ch.zero <= c /\ c <= ch.nine

isHexadecimal(c) ==
    isDecimal(c) \/ (ch.a <= c /\ c <= ch.f) \/ (ch.A <= c /\ c <= ch.F)

\* the value of a hexadecimal digit
hexValue(c) ==
    IF isDecimal(c) THEN c - ch.zero
    ELSE IF ch.a <= c /\ c <= ch.f THEN c - ch.a + 10
    ELSE c - ch.A + 10

\* the values of a run of hexadecimal digits
HexValues(text) == [i \in 1..Len(text) |-> hexValue(text[i])]

\* the values of a run of decimal digits
DigitValues(text) == [i \in 1..Len(text) |-> text[i] - ch.zero]

\* strconv.ParseInt(text, 10, 64) of a text that starts with no sign: the
\* value as a word, ErrSyntax unless text is one or more decimal digits,
\* ErrRange when the value is above maxInt64
ParseInt(text) ==
    IF text = <<>> \/ \E i \in 1..Len(text) : ~isDecimal(text[i])
    THEN [v |-> Zeros(8), err |-> ErrSyntax]
    ELSE IF NatLess(maxInt64, NatOfDigits(DigitValues(text), 10))
    THEN [v |-> maxInt64, err |-> ErrRange]
    ELSE [v |-> Low64(NatOfDigits(DigitValues(text), 10)), err |-> NoErr]

\* the length of the run of decimal digits of text that starts at position from
RECURSIVE DigitRun(_, _)
DigitRun(text, from) ==
    IF from <= Len(text) /\ isDecimal(text[from]) THEN 1 + DigitRun(text, from + 1) ELSE 0

\* the exponent strconv reads from a run of digits: it stops adding digits
\* once the value has reached 10000
RECURSIVE ExponentValue(_)
ExponentValue(ds) ==
    IF ds = <<>> THEN 0
    ELSE LET e == ExponentValue(SubSeq(ds, 1, Len(ds) - 1))
         IN  IF e < 10000 THEN e * 10 + ds[Len(ds)] ELSE e

\* the first decimal digits of 2^1024 - 2^970, the least value that rounds to
\* an infinite float64; its decimal exponent is 308
floatOverflowDigits ==
    <<1, 7, 9, 7, 6, 9, 3, 1, 3, 4, 8, 6, 2, 3, 1, 5, 8, 0, 7, 9, 3, 7, 2, 8>>

\* the digits ds shortened or padded with zeros to n digits
Padded(ds, n) == [i \in 1..n |-> IF i <= Len(ds) THEN ds[i] ELSE 0]

\* whether mantissa digits ds times 10^e10 rounds to an infinite float64
\* (decided on the first 24 significant digits)
FloatOverflows(ds, e10) ==
    LET m == Strip(ds)
        sci == Len(m) - 1 + e10
    IN  /\ m # <<>>
        /\ \/ sci > 308
           \/ /\ sci = 308
              /\ LexLess(floatOverflowDigits, Padded(m, Len(floatOverflowDigits)))

\* strconv.ParseFloat(text, 64) of a decimal text: ErrSyntax unless text is
\* digits with an optional '.' and an optional exponent of one or more
\* digits, ErrRange (with an infinite value) when the value overflows;
\* underflow is no error.  The float64 is kept as the text it was parsed from.
ParseFloat(text) ==
    LET n1 == DigitRun(text, 1)
        dot == n1 < Len(text) /\ text[n1 + 1] = ch.dot
        n2 == IF dot THEN DigitRun(text, n1 + 2) ELSE 0
        p == IF dot THEN n1 + 1 + n2 ELSE n1
        hasE == p < Len(text) /\ text[p + 1] \in {ch.e, ch.E}
        signed == hasE /\ p + 1 < Len(text) /\ text[p + 2] \in {ch.plus, ch.minus}
        q == IF signed THEN p + 2 ELSE p + 1
        n3 == IF hasE THEN DigitRun(text, q + 1) ELSE 0
        last == IF hasE THEN q + n3 ELSE p
        mant == DigitValues(SubSeq(text, 1, n1) \o SubSeq(text, n1 + 2, n1 + 1 + n2))
        e == ExponentValue(DigitValues(SubSeq(text, q + 1, q + n3)))
        e10 == (IF signed /\ text[p + 2] = ch.minus THEN -e ELSE e) - n2
    IN  IF n1 + n2 = 0 \/ (hasE /\ n3 = 0) \/ last # Len(text)
        THEN [v |-> [parse |-> <<>>], err |-> ErrSyntax]
        ELSE IF FloatOverflows(mant, e10)
        THEN [v |-> [parse |-> text], err |-> ErrRange]
        ELSE [v |-> [parse |-> text], err |-> NoErr]

-----------------------------------------------------------------------------
(* The scanner's numeric literals (scanner.go)                              *)

endOfStream == -1

tkEOS == "tkEOS"
tkNumber == "tkNumber"
tkInteger == "tkInteger"
tkConcat == "tkConcat"
tkDots == "tkDots"

\* F applied to v
Let(v, F(_)) == F(v)

\* what a scanning function hands back: a token and the scanner after it
Scanned(token, s) == [tok |-> token, s |-> s]

advance(s) ==
    IF s.at < Len(s.r)
    THEN [s EXCEPT !.at = s.at + 1, !.current = s.r[s.at + 1]]
    ELSE [s EXCEPT !.current = endOfStream]

save(s, c) == [s EXCEPT !.buffer = Append(s.buffer, c % 256)]

saveAndAdvance(s) == advance(save(s, s.current))

\* s.buffer.Reset()
bufferReset(s) == [s EXCEPT !.buffer = <<>>]

\* the result of s.checkNext(set), and the scanner after it
checkNextFound(s, set) == s.current # 0 /\ s.current \in set

checkNext(s, set) == IF checkNextFound(s, set) THEN saveAndAdvance(s) ELSE s

\* the scanner after readDigits; the rune it returns is the current one
RECURSIVE readDigits(_)
readDigits(s) == IF isDecimal(s.current) THEN readDigits(saveAndAdvance(s)) ELSE s

\* readHexNumber(x): the scanner after it, the hexadecimal digits the float n
\* has accumulated (those of x first), and the count i of digits read
RECURSIVE readHexNumber(_, _, _)
readHexNumber(s, n, i) ==
    IF ~isHexadecimal(s.current) THEN [s |-> s, n |-> n, i |-> i]
    ELSE readHexNumber(advance(save(s, s.current)),
                       Append(n, hexValue(s.current)), i + 1)

\* s.numberError(): scanError pushes the message and throws a SyntaxError
numberError(s) == Scanned([t |-> "error", msg |-> "malformed number"], s)

\* strconv.ParseUint would instead stop at the largest uint64
hexIntegerSaturating(hexStr) ==
    IF Len(Strip(HexValues(hexStr))) > 16 THEN [i \in 1..8 |-> 255]
    ELSE Low64(NatOfDigits(HexValues(hexStr), 16))

\* the loop over hexStr, uintVal = uintVal*16 + digit in uint64: uintVal least
\* significant byte first, the carry out of its 8 bytes dropped
RECURSIVE hexLoop(_)
hexLoop(hexStr) ==
    IF hexStr = <<>> THEN Zeros(8)
    ELSE SubSeq(MulAddLE(hexLoop(SubSeq(hexStr, 1, Len(hexStr) - 1)), 16,
                         hexValue(hexStr[Len(hexStr)])), 1, 8)

\* int64(uintVal) after the loop
hexInteger(hexStr) == Reverse(hexLoop(hexStr))

\* the end of the hexadecimal branch: an integer, or math.Ldexp of the digits
hexResult(s, isFloat, fraction, exponent) ==
    IF ~isFloat /\ exponent = 0
    THEN Scanned([t |-> tkInteger, i |-> hexInteger(s.buffer)], bufferReset(s))
    ELSE Scanned([t |-> tkNumber, n |-> [ldexp |-> fraction, exp |-> exponent]],
                 bufferReset(s))

\* the exponent of a hexadecimal literal, from 'p' on
readHexExponent(s, isFloat, fraction, exponent) ==
    IF s.current \notin {ch.p, ch.P} THEN hexResult(s, isFloat, fraction, exponent)
    ELSE
    Let(advance(bufferReset(s)), LAMBDA s1 :
    Let(IF s1.current \in {ch.plus, ch.minus} THEN advance(s1) ELSE s1, LAMBDA s2 :
        IF ~isDecimal(s2.current) THEN numberError(s2)
        ELSE
        Let(readDigits(s2), LAMBDA s3 :
            IF ParseInt(s3.buffer).err # NoErr THEN numberError(s3)
            ELSE hexResult(bufferReset(s3), TRUE, fraction,
                           IF s1.current = ch.minus
                           THEN exponent - SmallInt(ParseInt(s3.buffer).v)
                           ELSE exponent + SmallInt(ParseInt(s3.buffer).v)))))

\* the hexadecimal branch of readNumber, after the prefix
readHexLiteral(s) ==
    Let(readHexNumber(s, <<>>, 0), LAMBDA h1 :
    Let(IF h1.s.current = ch.dot
        THEN readHexNumber(advance(h1.s), h1.n, 0)
        ELSE [s |-> h1.s, n |-> h1.n, i |-> 0], LAMBDA h2 :
        IF h1.i = 0 /\ h2.i = 0 THEN numberError(h2.s)
        ELSE readHexExponent(h2.s, h1.s.current = ch.dot, h2.n, h2.i * (-4))))

\* strings.TrimLeft(text, "0")
RECURSIVE TrimLeftZeros(_)
TrimLeftZeros(text) ==
    IF text # <<>> /\ text[1] = ch.zero THEN TrimLeftZeros(Tail(text)) ELSE text

\* the text handed to strconv: leading zeros trimmed, one kept before a
\* non-digit or when nothing else is left
trimmedNumber(text) ==
    IF text # <<>> /\ text[1] = ch.zero
    THEN IF TrimLeftZeros(text) = <<>> \/ ~isDecimal(TrimLeftZeros(text)[1])
         THEN <<ch.zero>> \o TrimLeftZeros(text)
         ELSE TrimLeftZeros(text)
    ELSE text

\* the end of the decimal branch: ParseInt unless isFloat, else ParseFloat
decimalResult(s, isFloat, text) ==
    IF ~isFloat /\ ParseInt(text).err = NoErr
    THEN Scanned([t |-> tkInteger, i |-> ParseInt(text).v], s)
    ELSE IF ParseFloat(text).err # NoErr THEN numberError(s)
    ELSE Scanned([t |-> tkNumber, n |-> ParseFloat(text).v], s)

\* the sign of a decimal exponent, when there is one
saveSign(s) == IF s.current \in {ch.plus, ch.minus} THEN saveAndAdvance(s) ELSE s

\* the decimal branch of readNumber
readDecimalLiteral(s) ==
    Let(readDigits(s), LAMBDA s1 :
    Let(IF s1.current = ch.dot THEN readDigits(saveAndAdvance(s1)) ELSE s1, LAMBDA s2 :
    Let(IF s2.current \in {ch.e, ch.E}
        THEN readDigits(saveSign(saveAndAdvance(s2)))
        ELSE s2, LAMBDA s3 :
        decimalResult(bufferReset(s3),
                      s1.current = ch.dot \/ s2.current \in {ch.e, ch.E},
                      trimmedNumber(s3.buffer)))))

readNumber(s) ==
    Let(saveAndAdvance(s), LAMBDA s1 :
        IF s.current = ch.zero /\ checkNextFound(s1, {ch.X, ch.x})
        THEN readHexLiteral(bufferReset(checkNext(s1, {ch.X, ch.x})))
        ELSE readDecimalLiteral(s1))

\* the '.' case of scan (unicode.IsDigit of a byte is isDecimal)
scanDot(s) ==
    Let(saveAndAdvance(s), LAMBDA s1 :
        IF checkNextFound(s1, {ch.dot})
        THEN Let(checkNext(s1, {ch.dot}), LAMBDA s2 :
                 IF checkNextFound(s2, {ch.dot})
                 THEN Scanned([t |-> tkDots], bufferReset(checkNext(s2, {ch.dot})))
                 ELSE Scanned([t |-> tkConcat], bufferReset(s2)))
        ELSE IF ~isDecimal(s1.current) THEN Scanned([t |-> "."], bufferReset(s1))
        ELSE readNumber(s1))

\* scan, for a text that starts a number, a '.' or nothing at all
RECURSIVE scan(_)
scan(s) ==
    IF s.current = 0 THEN scan(advance(s))
    ELSE IF s.current = endOfStream THEN Scanned([t |-> tkEOS], s)
    ELSE IF s.current = ch.dot THEN scanDot(s)
    ELSE IF isDecimal(s.current) THEN readNumber(s)
    ELSE Scanned([t |-> "other"], s)

-----------------------------------------------------------------------------
(* Numeric literals under the scanner                                       *)

\* the longest run of nines, and of zeros after a one, of a decimal literal
MaxDecDigits == 20

\* the longest run of F's, and of zeros after a one, of a hexadecimal literal
MaxHexDigits == 17

\* n times the digit d
Rep(d, n) == [i \in 1..n |-> d]

\* decimal digits as runes
Dec(ds) == [i \in 1..Len(ds) |-> ch.zero + ds[i]]

\* hexadecimal digits as runes, letters in upper or lower case
Hex(ds, upper) ==
    [i \in 1..Len(ds) |->
        IF ds[i] < 10 THEN ch.zero + ds[i]
        ELSE IF upper THEN ch.A + ds[i] - 10 ELSE ch.a + ds[i] - 10]

\* the digits of maxInt64 and of maxInt64 + 1
MaxInt64Digits == <<9, 2, 2, 3, 3, 7, 2, 0, 3, 6, 8, 5, 4, 7, 7, 5, 8, 0, 7>>
MinInt64Digits == <<9, 2, 2, 3, 3, 7, 2, 0, 3, 6, 8, 5, 4, 7, 7, 5, 8, 0, 8>>

DecIntParts ==
    {<<>>} \cup {Dec(ds) : ds \in {<<0>>, <<7>>, <<0, 8>>, <<0, 0>>}}
      \cup {Dec(Rep(9, n)) : n \in 1..MaxDecDigits}
      \cup {Dec(<<1>> \o Zeros(n)) : n \in 1..MaxDecDigits}
      \cup {Dec(MaxInt64Digits), Dec(MinInt64Digits), Dec(<<0>> \o MaxInt64Digits)}
      \cup {Dec(<<1, 7, 9, 7, 6, 9, 3, 1, 3, 4, 8, 6, 2, 3, 1, 5, 7>>),
            Dec(<<1, 7, 9, 7, 6, 9, 3, 1, 3, 4, 8, 6, 2, 3, 1, 5, 9>>)}

\* an exponent part: the mark, an optional sign, the digits
ExpPart(mark, sign, ds) == <<mark>> \o sign \o Dec(ds)

DecExpParts ==
    {<<>>, ExpPart(ch.e, <<>>, <<5>>), ExpPart(ch.E, <<>>, <<5>>),
     ExpPart(ch.e, <<ch.plus>>, <<5>>), ExpPart(ch.e, <<ch.minus>>, <<5>>),
     ExpPart(ch.E, <<ch.plus>>, <<0>>), ExpPart(ch.e, <<>>, <<2, 9, 2>>),
     ExpPart(ch.e, <<>>, <<3, 0, 8>>), ExpPart(ch.e, <<>>, <<3, 0, 9>>),
     ExpPart(ch.e, <<ch.minus>>, <<4, 0, 0>>)}

HexIntParts ==
    {<<>>} \cup {Hex(Rep(15, n), u) : n \in 1..MaxHexDigits, u \in BOOLEAN}
      \cup {Hex(<<1>> \o Zeros(n), TRUE) : n \in 0..(MaxHexDigits - 1)}
      \cup {Hex(ds, FALSE) :
              ds \in {<<10, 15>>, <<0, 0, 1>>, <<7>> \o Rep(15, 15), <<8>> \o Zeros(15),
                      Zeros(16) \o <<5>>,
                      <<1, 2, 3, 4, 5, 6, 7, 8, 9, 10, 11, 12, 13, 14, 15, 0, 1>>}}

HexExpParts ==
    {<<>>, ExpPart(ch.p, <<>>, <<1>>), ExpPart(ch.P, <<ch.minus>>, <<1>>),
     ExpPart(ch.p, <<ch.plus>>, <<1, 0>>), ExpPart(ch.p, <<>>, <<0>>),
     ExpPart(ch.p, <<>>, Rep(9, 20))}

\* a literal by its parts: digits, an optional '.' and digits, an optional exponent
Literal(kind, prefix, int, dot, frac, exp) ==
    [kind |-> kind, prefix |-> prefix, int |-> int, dot |-> dot, frac |-> frac,
     exp |-> exp]

\* the well-formed numeric literals of Lua 5.3 the scanner is given
Literals ==
    {Literal("dec", <<>>, i, d[1], d[2], e) :
        i \in DecIntParts,
        d \in {<<FALSE, <<>>>>} \cup
              {<<TRUE, fr>> : fr \in {<<>>, Dec(<<5>>), Dec(<<0>>), Dec(<<2, 5>>)}},
        e \in DecExpParts}
    \cup
    {Literal("hex", px, i, d[1], d[2], e) :
        px \in {<<ch.zero, ch.x>>, <<ch.zero, ch.X>>},
        i \in HexIntParts,
        d \in {<<FALSE, <<>>>>} \cup
              {<<TRUE, fr>> : fr \in {<<>>, Hex(<<8>>, TRUE), Hex(<<0, 12>>, FALSE)}},
        e \in HexExpParts}

\* a literal has a digit before or after its '.'
WellFormed(l) == l.int # <<>> \/ l.frac # <<>>

\* the text of a literal
Text(l) ==
    l.prefix \o l.int \o (IF l.dot THEN <<ch.dot>> ELSE <<>>) \o l.frac \o l.exp

\* a scanner over text, as scanner{l: l, r: strings.NewReader(text)}
newScanner(text) == [r |-> text, at |-> 0, current |-> 0, buffer |-> <<>>]

InitScan ==
    /\ lit \in {l \in Literals : WellFormed(l)}
    /\ scanner = newScanner(Text(lit))
    /\ tok = [t |-> "none"]
    /\ IdleChunk /\ IdleNum /\ IdleVM /\ IdleLib

\* scanner.scan() on the literal
Scan ==
    /\ lit.kind # "none" /\ tok.t = "none"
    /\ tok' = scan(scanner).tok
    /\ scanner' = scan(scanner).s
    /\ UNCHANGED <<lit, dumpVars, numVars, vmVars, libVars>>

NextScan == Scan

SpecScan == InitScan /\ [][NextScan]_vars

-----------------------------------------------------------------------------
(* Properties of the scanner's numeric literals                             *)

\* whether the decimal digits (as runes) stand for a value of at most 2^63-1
FitsInt64(text) ==
    LET ds == Strip(DigitValues(text))
    IN  \/ Len(ds) < Len(MaxInt64Digits)
        \/ Len(ds) = Len(MaxInt64Digits) /\ ~LexLess(MaxInt64Digits, ds)

\* C4: readNumber yields an integer token exactly when the literal has no
\* '.', no decimal exponent and no hex 'p' exponent and its value fits in
\* int64 (a hex literal always fits, by wrapping); every other well-formed
\* numeric literal yields a float token.
NumberTokenKind ==
    tok.t # "none" =>
        IF ~lit.dot /\ lit.exp = <<>> /\ (lit.kind = "hex" \/ FitsInt64(lit.int))
        THEN tok.t = tkInteger
        ELSE tok.t = tkNumber

\* the word of int64(-1)
MinusOne == [i \in 1..8 |-> 255]

\* C5: a hex literal with no '.' and no 'p' exponent, of any number of
\* digits, is scanned whole into the integer token whose value is the low 64
\* bits of the literal's mathematical value, read as a two's-complement
\* int64; 0xFFFFFFFFFFFFFFFF yields -1.
HexIntegerWraps ==
    (tok.t # "none" /\ lit.kind = "hex" /\ ~lit.dot /\ lit.exp = <<>>)
        => /\ tok.t = tkInteger
           /\ tok.i = Low64(NatOfDigits(HexValues(lit.int), 16))
           /\ lit.int = Hex(Rep(15, 16), TRUE) => tok.i = MinusOne
           /\ scanner.at = Len(scanner.r) /\ scanner.current = endOfStream

\* a hex literal of more than 16 digits whose value is 2^64 or more was
\* scanned to an integer
HexIntegerWrapsWitness ==
    /\ tok.t = tkInteger /\ lit.kind = "hex"
    /\ Len(lit.int) > 16 /\ hexValue(lit.int[1]) = 15
    /\ tok.i = MinusOne

-----------------------------------------------------------------------------
(* int64 and float64 at the bit level                                       *)

\* the bits of a word, most significant first
BitsOf(w) ==
    [j \in 1..(8 * Len(w)) |-> (w[(j + 7) \div 8] \div (2 ^ (7 - ((j - 1) % 8)))) % 2]

\* the word of a sequence of bits (8 for each byte)
WordOf(bits) ==
    [i \in 1..(Len(bits) \div 8) |->
        bits[8*i - 7] * 128 + bits[8*i - 6] * 64 + bits[8*i - 5] * 32 + bits[8*i - 4] * 16
            + bits[8*i - 3] * 8 + bits[8*i - 2] * 4 + bits[8*i - 1] * 2 + bits[8*i]]

\* int64(i) of an int, and -x in int64
Int64Word(i) == (IF i < 0 THEN Rep(255, 4) ELSE Zeros(4)) \o Int32Word(i)

Negate(x) == WordMulAdd([j \in 1..8 |-> 255 - x[j]], 1, 1)

\* the int an int64 stands for when within 30 bits, else 2^30 with its sign
Int64Small(w) ==
    IF SubSeq(w, 1, 4) = Zeros(4) /\ w[5] < 64 THEN WordInt32(SubSeq(w, 5, 8))
    ELSE IF SubSeq(w, 1, 4) = Rep(255, 4) /\ w[5] >= 192 THEN WordInt32(SubSeq(w, 5, 8))
    ELSE IF w[1] >= 128 THEN -1073741824 ELSE 1073741824

minInt64 == <<128, 0, 0, 0, 0, 0, 0, 0>>

\* 2^63 and -2^63 as float64
pow2_63Float == <<67, 224, 0, 0, 0, 0, 0, 0>>
negPow2_63Float == <<195, 224, 0, 0, 0, 0, 0, 0>>

\* the fields of a float64
FloatSign(w) == w[1] \div 128
FloatExp(w) == (w[1] % 128) * 16 + w[2] \div 16
FloatMant(w) == SubSeq(BitsOf(w), 13, 64)

\* Go's < and >= on float64
FloatLess(x, y) ==
    /\ ~FloatIsNaN(x) /\ ~FloatIsNaN(y)
    /\ ~(FloatIsZero(x) /\ FloatIsZero(y))
    /\ IF FloatSign(x) # FloatSign(y) THEN FloatSign(x) = 1
       ELSE IF FloatSign(x) = 0 THEN LexLess(x, y)
       ELSE LexLess(y, x)

FloatGEq(x, y) == ~FloatIsNaN(x) /\ ~FloatIsNaN(y) /\ ~FloatLess(x, y)

\* int64(f): f truncated toward zero; for a NaN, an infinity or a value
\* outside int64 the result depends on the processor, and is undef
Int64OfFloat(f, undef) ==
    LET e == FloatExp(f) - 1023
        sig == <<1>> \o FloatMant(f)
        mag == IF e <= 52 THEN SubSeq(sig, 1, e + 1) ELSE sig \o Zeros(e - 52)
    IN  IF FloatExp(f) = 2047 \/ FloatGEq(f, pow2_63Float) \/ FloatLess(f, negPow2_63Float)
        THEN undef
        ELSE IF e < 0 THEN Zeros(8)
        ELSE IF FloatSign(f) = 1 THEN Negate(WordOf(Zeros(64 - Len(mag)) \o mag))
        ELSE WordOf(Zeros(64 - Len(mag)) \o mag)

\* float64(i): the nearest float64, ties to even
Float64OfInt(i) ==
    IF i = Zeros(8) THEN Zeros(8)
    ELSE
    LET neg == i[1] >= 128
        mag == BitsOf(IF neg THEN Negate(i) ELSE i)
        k == CHOOSE j \in 1..64 : mag[j] = 1 /\ \A h \in 1..(j - 1) : mag[h] = 0
        e == 64 - k
        rest == SubSeq(mag, k + 1, 64)
        m52 == IF e <= 52 THEN rest \o Zeros(52 - e) ELSE SubSeq(rest, 1, 52)
        cut == IF e <= 52 THEN <<>> ELSE SubSeq(rest, 53, e)
        up == /\ cut # <<>> /\ cut[1] = 1
              /\ (m52[52] = 1 \/ \E j \in 2..Len(cut) : cut[j] = 1)
        exp == [j \in 1..11 |-> ((e + 1023) \div (2 ^ (11 - j))) % 2]
        w == WordOf(<<IF neg THEN 1 ELSE 0>> \o exp \o m52)
    IN  IF up THEN WordMulAdd(w, 1, 1) ELSE w

-----------------------------------------------------------------------------
(* Integer conversions (types.go) and shifts                                *)

\* what a conversion returns
Converted(i, ok) == [i |-> i, ok |-> ok]

\* the range test written with <= would turn away -2^63 itself
floatToIntegerExclusiveMin(f, undef) ==
    IF FloatGEq(f, pow2_63Float) \/ FloatGEq(negPow2_63Float, f)
    THEN Converted(Zeros(8), FALSE)
    ELSE IF FloatEq(Float64OfInt(Int64OfFloat(f, undef)), f)
    THEN Converted(Int64OfFloat(f, undef), TRUE)
    ELSE Converted(Zeros(8), FALSE)

floatToInteger(f, undef) ==
    IF FloatGEq(f, pow2_63Float) \/ FloatLess(f, negPow2_63Float)
    THEN Converted(Zeros(8), FALSE)
    ELSE IF FloatEq(Float64OfInt(Int64OfFloat(f, undef)), f)
    THEN Converted(Int64OfFloat(f, undef), TRUE)
    ELSE Converted(Zeros(8), FALSE)

toInteger(v, undef) ==
    IF v.t = "int64" THEN Converted(v.w, TRUE)
    ELSE IF v.t = "float64" THEN
        IF FloatGEq(v.w, pow2_63Float) \/ FloatLess(v.w, negPow2_63Float)
        THEN Converted(Zeros(8), FALSE)
        ELSE IF FloatEq(Float64OfInt(Int64OfFloat(v.w, undef)), v.w)
        THEN Converted(Int64OfFloat(v.w, undef), TRUE)
        ELSE Converted(Zeros(8), FALSE)
    ELSE Converted(Zeros(8), FALSE)

\* vm.go is not part of the sources: integerValues converts both operands
\* with toInteger and succeeds when both do (TestIntegerValues)
integerValues(vb, vc, undef) ==
    IF ~toInteger(vb, undef).ok THEN [ib |-> Zeros(8), ic |-> Zeros(8), ok |-> FALSE]
    ELSE [ib |-> toInteger(vb, undef).i,
          ic |-> toInteger(vc, undef).i,
          ok |-> toInteger(vc, undef).ok]

\* uint64(x) << n and uint64(x) >> n for 0 <= n < 64
ShiftLeftBits(x, n) == WordOf(SubSeq(BitsOf(x), n + 1, 64) \o Zeros(n))
ShiftRightBits(x, n) == WordOf(Zeros(n) \o SubSeq(BitsOf(x), 1, 64 - n))

\* a shift that keeps only the low six bits of the count, as the processor does
intShiftLeftMasked(x, y) ==
    IF Int64Small(y) >= 0 THEN ShiftLeftBits(x, y[8] % 64)
    ELSE ShiftRightBits(x, Negate(y)[8] % 64)

\* vm.go is not part of the sources: the shift of section 4.1 and of
\* TestIntShiftLeft
intShiftLeft(x, y) ==
    IF Int64Small(y) <= -64 \/ Int64Small(y) >= 64 THEN Zeros(8)
    ELSE IF Int64Small(y) >= 0 THEN ShiftLeftBits(x, Int64Small(y))
    ELSE ShiftRightBits(x, -Int64Small(y))

\* a right shift is the left shift by the negated count
intShiftRight(x, y) == intShiftLeft(x, Negate(y))

-----------------------------------------------------------------------------
(* Numbers under conversion and shift                                       *)

\* the largest unbiased exponent of the floats converted, every one from 0 on
MaxFloatExp == 65

\* the largest shift count, every one from its negation on
MaxShift == 66

\* the float64 with sign s, exponent field e and the 52 mantissa bits m
MakeFloat(s, e, m) ==
    WordOf(<<s>> \o [j \in 1..11 |-> (e \div (2 ^ (11 - j))) % 2] \o m)

\* mantissas: zero, each single bit, all ones
Mantissas ==
    {Zeros(52), Rep(1, 52)}
        \cup {[j \in 1..52 |-> IF j = k THEN 1 ELSE 0] : k \in 1..52}

\* zeros and subnormals, fractions, every exponent up to MaxFloatExp, the
\* largest finite floats, the infinities and NaNs
Floats ==
    {MakeFloat(s, e, m) :
        s \in {0, 1},
        e \in {0, 1, 1022, 2046, 2047} \cup {1023 + d : d \in 0..MaxFloatExp},
        m \in Mantissas}

ShiftXs ==
    {Int64Word(0), Int64Word(1), Int64Word(-1), Int64Word(16), Int64Word(255),
     minInt64, maxInt64, <<18, 52, 86, 120, 154, 188, 222, 240>>}

ShiftYs ==
    {Int64Word(y) : y \in (0 - MaxShift)..MaxShift}
        \cup {Int64Word(100), Int64Word(-100), minInt64, maxInt64,
              <<0, 0, 0, 1, 0, 0, 0, 0>>, <<0, 0, 0, 1, 0, 0, 0, 1>>,
              <<255, 255, 255, 255, 0, 0, 0, 0>>, <<255, 255, 255, 254, 255, 255, 255, 255>>}

\* the operands of TestIntegerValues: 5, 3, 5.0, 3.0, 5.5, 3.5, "5"
SmallValues ==
    {IntV(Int64Word(5)), IntV(Int64Word(3)),
     FloatV(<<64, 20, 0, 0, 0, 0, 0, 0>>), FloatV(<<64, 8, 0, 0, 0, 0, 0, 0>>),
     FloatV(<<64, 22, 0, 0, 0, 0, 0, 0>>), FloatV(<<64, 12, 0, 0, 0, 0, 0, 0>>),
     StrV(<<53>>), BoolV(TRUE)}

NumValues ==
    {FloatV(f) : f \in Floats} \cup {IntV(x) : x \in ShiftXs} \cup SmallValues

\* what int64(f) may be where the language leaves it to the processor
Undefs == {minInt64, Zeros(8), maxInt64}

InitNum ==
    /\ \/ argB \in NumValues /\ argC = NilV
       \/ argB \in SmallValues /\ argC \in SmallValues
       \/ argB \in {IntV(x) : x \in ShiftXs} /\ argC \in {IntV(y) : y \in ShiftYs}
    /\ numOut = [op |-> "none"]
    /\ IdleChunk /\ IdleScan /\ IdleVM /\ IdleLib

\* toInteger(b)
ToInteger ==
    /\ numOut.op = "none" /\ argC = NilV
    /\ \E undef \in Undefs :
          numOut' = [op |-> "toInteger", i |-> toInteger(argB, undef).i,
                     ok |-> toInteger(argB, undef).ok]
    /\ UNCHANGED <<argB, argC, dumpVars, scanVars, vmVars, libVars>>

\* floatToInteger(b)
FloatToInteger ==
    /\ numOut.op = "none" /\ argC = NilV /\ argB.t = "float64"
    /\ \E undef \in Undefs :
          numOut' = [op |-> "floatToInteger", i |-> floatToInteger(argB.w, undef).i,
                     ok |-> floatToInteger(argB.w, undef).ok]
    /\ UNCHANGED <<argB, argC, dumpVars, scanVars, vmVars, libVars>>

\* integerValues(b, c)
IntegerValues ==
    /\ numOut.op = "none" /\ argC # NilV
    /\ \E undef \in Undefs :
          numOut' = [op |-> "integerValues", ib |-> integerValues(argB, argC, undef).ib,
                     ic |-> integerValues(argB, argC, undef).ic,
                     ok |-> integerValues(argB, argC, undef).ok]
    /\ UNCHANGED <<argB, argC, dumpVars, scanVars, vmVars, libVars>>

\* b << c
ShiftLeft ==
    /\ numOut.op = "none" /\ argB.t = "int64" /\ argC.t = "int64"
    /\ numOut' = [op |-> "intShiftLeft", i |-> intShiftLeft(argB.w, argC.w)]
    /\ UNCHANGED <<argB, argC, dumpVars, scanVars, vmVars, libVars>>

\* b >> c
ShiftRight ==
    /\ numOut.op = "none" /\ argB.t = "int64" /\ argC.t = "int64"
    /\ numOut' = [op |-> "intShiftRight", i |-> intShiftRight(argB.w, argC.w)]
    /\ UNCHANGED <<argB, argC, dumpVars, scanVars, vmVars, libVars>>

NextNum ==
    \/ ToInteger
    \/ FloatToInteger
    \/ IntegerValues
    \/ ShiftLeft
    \/ ShiftRight

SpecNum == InitNum /\ [][NextNum]_vars

-----------------------------------------------------------------------------
(* Properties of the conversions and shifts                                 *)

\* the float64 f is integral and -2^63 <= f < 2^63
IntegralInRange(f) ==
    /\ FloatExp(f) # 2047
    /\ \/ FloatIsZero(f)
       \/ /\ FloatExp(f) >= 1023
          /\ \A j \in 1..52 : j > FloatExp(f) - 1023 => FloatMant(f)[j] = 0
          /\ \/ FloatExp(f) - 1023 <= 62
             \/ /\ FloatExp(f) - 1023 = 63
                /\ FloatSign(f) = 1 /\ FloatMant(f) = Zeros(52)

\* the int64 i and the finite float64 f are the same number: the same sign,
\* and |i| * 2^52 = (2^52 + mantissa) * 2^e in binary
NumericallyEqual(i, f) ==
    IF FloatIsZero(f) THEN i = Zeros(8)
    ELSE /\ i # Zeros(8)
         /\ (i[1] >= 128) <=> (FloatSign(f) = 1)
         /\ Strip(BitsOf(IF i[1] >= 128 THEN Negate(i) ELSE i)) \o Zeros(52)
               = <<1>> \o FloatMant(f) \o Zeros(FloatExp(f) - 1023)

\* a value toInteger converts
Convertible(v) == v.t = "int64" \/ (v.t = "float64" /\ IntegralInRange(v.w))

\* C6: toInteger and floatToInteger return (i, true) for a float f exactly
\* when f is integral and -2^63 <= f < 2^63, with i numerically equal to f,
\* and (0, false) for every other float (non-integral, NaN, infinite,
\* f >= 2^63, f < -2^63), whatever the processor makes of an out-of-range
\* int64(f); an integer converts to itself; integerValues succeeds exactly
\* when both operands convert, so never on a string.
IntegerConversion ==
    /\ (numOut.op \in {"toInteger", "floatToInteger"} /\ argB.t = "float64")
          => /\ numOut.ok <=> IntegralInRange(argB.w)
             /\ numOut.ok => NumericallyEqual(numOut.i, argB.w)
             /\ ~numOut.ok => numOut.i = Zeros(8)
    /\ (numOut.op = "toInteger" /\ argB.t = "int64")
          => numOut.ok /\ numOut.i = argB.w
    /\ (numOut.op = "toInteger" /\ argB.t \notin {"int64", "float64"})
          => ~numOut.ok
    /\ numOut.op = "integerValues"
          => /\ numOut.ok <=> (Convertible(argB) /\ Convertible(argC))
             /\ (argB.t = "string" \/ argC.t = "string") => ~numOut.ok
             /\ (numOut.ok /\ argB.t = "int64") => numOut.ib = argB.w
             /\ (numOut.ok /\ argB.t = "float64") => NumericallyEqual(numOut.ib, argB.w)
             /\ (numOut.ok /\ argC.t = "int64") => numOut.ic = argC.w
             /\ (numOut.ok /\ argC.t = "float64") => NumericallyEqual(numOut.ic, argC.w)

\* floatToInteger has converted -2^63, the least float in range, to minInt64
IntegerConversionWitness ==
    /\ numOut.op = "floatToInteger"
    /\ argB.w = negPow2_63Float
    /\ numOut.ok /\ numOut.i = minInt64

\* 2^k for k < 8
Pow2(k) == <<1, 2, 4, 8, 16, 32, 64, 128>>[k + 1]

\* the numeral w times 2^n: n \div 8 whole bytes and a factor below 256
Doubled(w, n) == MulAdd(w \o Zeros(n \div 8), Pow2(n % 8), 0)

\* the numeral w, after a remainder c, divided by d, rounding down
RECURSIVE DivSmall(_, _, _)
DivSmall(w, d, c) ==
    IF w = <<>> THEN <<>>
    ELSE <<(c * 256 + w[1]) \div d>> \o DivSmall(Tail(w), d, (c * 256 + w[1]) % d)

\* the numeral w divided by 2^n, rounding down, at the length of w
Halved(w, n) ==
    Zeros(n \div 8) \o DivSmall(SubSeq(w, 1, Len(w) - n \div 8), Pow2(n % 8), 0)

\* x shifted left by n as arithmetic on the unsigned x: the low 64 bits of
\* x * 2^n, zero from 64 bits on, x / 2^(-n) rounded down for a negative n
ShiftValue(x, n) ==
    IF n >= 64 \/ n <= -64 THEN Zeros(8)
    ELSE IF n >= 0 THEN Low64(Doubled(x, n))
    ELSE Halved(x, -n)

\* C10: for all int64 x and y, x << y is the low 64 bits of x * 2^y when
\* 0 <= y < 64, is 0 when y >= 64 or y <= -64, and is the logical right
\* shift of x by -y when -64 < y < 0; x >> y is x << -y.
ShiftSemantics ==
    /\ numOut.op = "intShiftLeft"
          => numOut.i = ShiftValue(argB.w, Int64Small(argC.w))
    /\ numOut.op = "intShiftRight"
          => numOut.i = ShiftValue(argB.w, -Int64Small(argC.w))

\* 1 << 63 has been computed: minInt64
ShiftSemanticsWitness ==
    /\ numOut.op = "intShiftLeft"
    /\ argB.w = Int64Word(1) /\ argC.w = Int64Word(63)
    /\ numOut.i = minInt64

-----------------------------------------------------------------------------
(* Calls, returns and upvalues.  stack.go and vm.go are not part of the     *)
(* sources: frames, CALL, TAILCALL, RETURN, CLOSURE and close-upvalues are   *)
(* modelled as sections 3, 4.3 and 4.4 of the design and README.md describe  *)
(* them.                                                                     *)

\* the longest call-info chain
MaxCallDepth == 2

\* the number of function activations of a run
MaxActs == 3

\* the number of closures created in a run
MaxClosures == 2

\* the locals of a frame: the slots after its function slot
FrameLocals == 2

\* the values a local holds
Vals == {0, 1}

\* a callInfo: the function slot, the activation running in the frame, the
\* activation that made the call the frame was created for, and the number
\* of tail calls made in the frame
Frame(function, act, caller) ==
    [function |-> function, act |-> act, caller |-> caller, tailCalls |-> 0]

\* an open upValue: home is the stack slot index of a local of activation owner
OpenUpValue(index, owner) == [open |-> TRUE, index |-> index, value |-> 0, owner |-> owner]

\* the base of a frame: its first local
base(ci) == ci.function + 1

\* the identity of the open upvalue for a slot, 0 when there is none
findUpValue(cells, open, slot) ==
    IF \E j \in 1..Len(open) : cells[open[j]].index = slot
    THEN open[CHOOSE j \in 1..Len(open) : cells[open[j]].index = slot]
    ELSE 0

\* the open list with a new identity inserted, sorted by slot
insertUpValue(cells, open, id, slot) ==
    SelectSeq(open, LAMBDA j : cells[j].index < slot) \o <<id>>
        \o SelectSeq(open, LAMBDA j : cells[j].index > slot)

\* the upvalue a CLOSURE captures for a local: the open one of that slot
\* when there is one, else a new one
captureUpValue(cells, open, slot) ==
    IF findUpValue(cells, open, slot) # 0 THEN findUpValue(cells, open, slot)
    ELSE Len(cells) + 1

\* a close that leaves the upvalue of the level slot itself open
closeUpValuesAbove(cells, stk, level) ==
    [id \in 1..Len(cells) |->
        IF cells[id].open /\ cells[id].index > level
        THEN [cells[id] EXCEPT !.open = FALSE, !.value = stk[cells[id].index]]
        ELSE cells[id]]

\* close-upvalues: every open upvalue of a slot at or above level takes the
\* slot's value into its own cell
closeUpValues(cells, stk, level) ==
    [id \in 1..Len(cells) |->
        IF cells[id].open /\ cells[id].index >= level
        THEN [cells[id] EXCEPT !.open = FALSE, !.value = stk[cells[id].index]]
        ELSE cells[id]]

\* the value read through an upvalue
upValueRead(cells, stk, id) ==
    IF cells[id].open THEN stk[cells[id].index] ELSE cells[id].value

\* CALL: a new callInfo at the end of the chain
call(ci, function, act) == Append(ci, Frame(function, act, ci[Len(ci)].act))

\* a tail call carried out as a call
tailCallAsCall(ci, act) ==
    Append(ci, [function |-> ci[Len(ci)].function, act |-> act,
                caller |-> ci[Len(ci)].caller,
                tailCalls |-> ci[Len(ci)].tailCalls + 1])

\* TAILCALL: the running frame is kept for the callee
tailCall(ci, act) ==
    [ci EXCEPT ![Len(ci)] =
        [function |-> ci[Len(ci)].function, act |-> act,
         caller |-> ci[Len(ci)].caller, tailCalls |-> ci[Len(ci)].tailCalls + 1]]

\* the running frame
Top == callInfo[Len(callInfo)]

\* the main chunk has been called by the host
InitVM ==
    /\ stack = <<0>> \o Zeros(FrameLocals)
    /\ callInfo = <<Frame(1, 0, -1)>>
    /\ upValueCells = <<>> /\ openUpValues = <<>>
    /\ closures = <<>>
    /\ nextAct = 1
    /\ IdleChunk /\ IdleScan /\ IdleNum /\ IdleLib

\* CALL: the function sits in the register after the caller's locals, the
\* callee's locals follow it
VMCall ==
    /\ callInfo # <<>> /\ Len(callInfo) < MaxCallDepth /\ nextAct < MaxActs
    /\ stack' = SubSeq(stack, 1, Top.function + FrameLocals) \o <<0>> \o Zeros(FrameLocals)
    /\ callInfo' = call(callInfo, Top.function + FrameLocals + 1, nextAct)
    /\ nextAct' = nextAct + 1
    /\ UNCHANGED <<upValueCells, openUpValues, closures, dumpVars, scanVars, numVars, libVars>>

\* an assignment to a local of the running function
VMSetLocal ==
    /\ callInfo # <<>>
    /\ \E i \in 1..FrameLocals, v \in Vals :
          /\ stack[Top.function + i] # v
          /\ stack' = [stack EXCEPT ![Top.function + i] = v]
    /\ UNCHANGED <<callInfo, upValueCells, openUpValues, closures, nextAct,
                   dumpVars, scanVars, numVars, libVars>>

\* CLOSURE: a closure that captures a local of the running function
VMClosure ==
    /\ callInfo # <<>> /\ Len(closures) < MaxClosures
    /\ \E i \in 1..FrameLocals :
          LET slot == Top.function + i
              id == captureUpValue(upValueCells, openUpValues, slot)
          IN  /\ upValueCells' =
                    IF id <= Len(upValueCells) THEN upValueCells
                    ELSE Append(upValueCells, OpenUpValue(slot, Top.act))
              /\ openUpValues' =
                    IF id <= Len(upValueCells) THEN openUpValues
                    ELSE insertUpValue(upValueCells, openUpValues, id, slot)
              /\ closures' = Append(closures, [upValue |-> id, act |-> Top.act, slot |-> slot])
    /\ UNCHANGED <<stack, callInfo, nextAct, dumpVars, scanVars, numVars, libVars>>

\* SETUPVAL: a closure writes its upvalue
VMSetUpValue ==
    /\ callInfo # <<>>
    /\ \E c \in 1..Len(closures), v \in Vals :
          LET id == closures[c].upValue
          IN  /\ upValueRead(upValueCells, stack, id) # v
              /\ IF upValueCells[id].open
                 THEN /\ stack' = [stack EXCEPT ![upValueCells[id].index] = v]
                      /\ UNCHANGED upValueCells
                 ELSE /\ upValueCells' = [upValueCells EXCEPT ![id].value = v]
                      /\ UNCHANGED stack
    /\ UNCHANGED <<callInfo, openUpValues, closures, nextAct, dumpVars, scanVars, numVars, libVars>>

\* RETURN: the first local is the result; it goes to the function slot, the
\* stack ends there, the upvalues from base on are closed, the callInfo is popped
VMReturn ==
    /\ callInfo # <<>>
    /\ upValueCells' = closeUpValues(upValueCells, stack, base(Top))
    /\ openUpValues' = SelectSeq(openUpValues, LAMBDA id : upValueCells'[id].open)
    /\ stack' = SubSeq(stack, 1, Top.function - 1) \o <<stack[base(Top)]>>
    /\ callInfo' = SubSeq(callInfo, 1, Len(callInfo) - 1)
    /\ UNCHANGED <<closures, nextAct, dumpVars, scanVars, numVars, libVars>>

\* TAILCALL: the caller's locals are given up (their upvalues closed), the
\* callee's arguments are copied down over them, no callInfo is added
VMTailCall ==
    /\ callInfo # <<>> /\ nextAct < MaxActs
    /\ upValueCells' = closeUpValues(upValueCells, stack, base(Top))
    /\ openUpValues' = SelectSeq(openUpValues, LAMBDA id : upValueCells'[id].open)
    /\ stack' = SubSeq(stack, 1, Top.function) \o <<stack[base(Top)]>>
                    \o Zeros(FrameLocals - 1)
    /\ callInfo' = tailCall(callInfo, nextAct)
    /\ nextAct' = nextAct + 1
    /\ UNCHANGED <<closures, dumpVars, scanVars, numVars, libVars>>

NextVM ==
    \/ VMCall
    \/ VMSetLocal
    \/ VMClosure
    \/ VMSetUpValue
    \/ VMReturn
    \/ VMTailCall

SpecVM == InitVM /\ [][NextVM]_vars

-----------------------------------------------------------------------------
(* Properties of calls, returns and upvalues                                *)

\* every open upvalue points at a local of a frame that is still there and is
\* on the open list, which is sorted by slot; closures that captured the same
\* local of the same activation hold the same upvalue, so each reads what the
\* other wrote
UpValuesSound ==
    /\ \A id \in 1..Len(upValueCells) :
          upValueCells[id].open =>
              /\ \E i \in 1..Len(callInfo) :
                    /\ callInfo[i].act = upValueCells[id].owner
                    /\ upValueCells[id].index \in
                          base(callInfo[i])..(callInfo[i].function + FrameLocals)
              /\ \E j \in 1..Len(openUpValues) : openUpValues[j] = id
    /\ \A j \in 1..Len(openUpValues) :
          /\ upValueCells[openUpValues[j]].open
          /\ j > 1 => upValueCells[openUpValues[j - 1]].index
                          < upValueCells[openUpValues[j]].index
    /\ \A c \in 1..Len(closures), d \in 1..Len(closures) :
          (closures[c].act = closures[d].act /\ closures[c].slot = closures[d].slot)
              => /\ closures[c].upValue = closures[d].upValue
                 /\ upValueRead(upValueCells, stack, closures[c].upValue)
                       = upValueRead(upValueCells, stack, closures[d].upValue)

\* a step that ends the activation owning an open upvalue's slot closes the
\* upvalue with the value the slot holds at that moment
ClosedOnExit ==
    \A id \in 1..Len(upValueCells) :
        (upValueCells[id].open
            /\ upValueCells[id].owner \notin {callInfo'[i].act : i \in 1..Len(callInfo')})
            => /\ ~upValueCells'[id].open
               /\ upValueCells'[id].value = stack[upValueCells[id].index]

\* a write through a closure's upvalue is what every closure of the same
\* capture reads afterwards
WriteIsShared ==
    \A c \in 1..Len(closures), d \in 1..Len(closures), v \in Vals :
        (/\ closures[c].act = closures[d].act /\ closures[c].slot = closures[d].slot
         /\ upValueRead(upValueCells, stack, closures[c].upValue) # v
         /\ upValueRead(upValueCells', stack', closures[c].upValue) = v)
            => upValueRead(upValueCells', stack', closures[d].upValue) = v

\* C8: after any sequence of calls, closure creations, writes, tail calls and
\* returns no upvalue is open once the activation owning its slot is over;
\* at that moment it became closed with the slot's value of that moment; two
\* closures that captured the same local of the same activation share one
\* upvalue, so a write through one is read by the other.
UpValueLifecycle ==
    /\ []UpValuesSound
    /\ [][ClosedOnExit /\ WriteIsShared]_vars

\* two closures share an upvalue that was closed holding 1 when its frame
\* returned, the value written to the local after both had captured it
UpValueLifecycleWitness ==
    /\ Len(closures) = 2
    /\ closures[1].upValue = closures[2].upValue
    /\ ~upValueCells[closures[1].upValue].open
    /\ upValueCells[closures[1].upValue].value = 1
    /\ Len(callInfo) = 1 /\ nextAct = 2

-----------------------------------------------------------------------------
(* Tables: raw set and next-key.  The table type is not part of the         *)
(* sources: the array part, the hash part and the traversal are modelled as  *)
(* section 4.2 of the design and README.md (Tables) describe them.  The      *)
(* order of the hash part is the implementation's choice; it changes only    *)
(* when the table is written.                                                *)

\* the number of raw sets a table is built with
MaxSets == 4

\* keys: integers and strings
KInt(i) == [t |-> "int", i |-> i]
KStr(s) == [t |-> "string", s |-> s]

\* the keys and the values the table is built with
TableKeys == {KInt(1), KInt(2), KInt(3), KInt(16), KStr("x")}
TableValues == {NilV, BoolV(TRUE)}

\* a table: array holds the keys 1..n, hash every other key, order is the
\* order in which the hash part is traversed; sets counts the raw sets
Table(arr, hsh, ord, n) ==
    [array |-> arr, hash |-> hsh, order |-> ord, sets |-> n]

NewTable == Table(<<>>, <<>>, <<>>, 0)

\* the sequence s with x put in at position i
InsertAt(s, i, x) == SubSeq(s, 1, i - 1) \o <<x>> \o SubSeq(s, i, Len(s))

\* the sequence s without x
Without(s, x) == SelectSeq(s, LAMBDA y : y # x)

\* the function h without the key k
Drop(h, k) == [j \in DOMAIN h \ {k} |-> h[j]]

\* the keys n+1, n+2, ... that follow the array part contiguously in the hash
\* part are moved over to the array part
RECURSIVE Rehashed(_)
Rehashed(t) ==
    LET k == KInt(Len(t.array) + 1)
    IN  IF k \in DOMAIN t.hash /\ t.hash[k] # NilV
        THEN Rehashed([t EXCEPT !.array = Append(t.array, t.hash[k]),
                                !.hash = Drop(t.hash, k),
                                !.order = Without(t.order, k)])
        ELSE t

\* the tables a raw set t[k] = v may leave: a key in 1..n is stored in the
\* array part, the key n+1 is appended to it (and the hash part may then be
\* rehashed), any other key goes to the hash part, a new one at a place of
\* the implementation's choice
rawSet(t, k, v) ==
    IF k.t = "int" /\ k.i \in 1..Len(t.array)
    THEN {[t EXCEPT !.array[k.i] = v]}
    ELSE IF k.t = "int" /\ k.i = Len(t.array) + 1 /\ v # NilV /\ k \notin DOMAIN t.hash
    THEN {[t EXCEPT !.array = Append(t.array, v)],
          Rehashed([t EXCEPT !.array = Append(t.array, v)])}
    ELSE IF k \in DOMAIN t.hash
    THEN {[t EXCEPT !.hash[k] = v]}
    ELSE IF v = NilV THEN {t}
    ELSE {[t EXCEPT !.hash = [j \in DOMAIN t.hash \cup {k} |->
                                 IF j = k THEN v ELSE t.hash[j]],
                    !.order = InsertAt(t.order, i, k)] : i \in 1..(Len(t.order) + 1)}

\* the traversal's slots: the array part in ascending index, then the hash part
slotCount(t) == Len(t.array) + Len(t.order)

slotKey(t, n) == IF n <= Len(t.array) THEN KInt(n) ELSE t.order[n - Len(t.array)]

slotValue(t, n) ==
    IF n <= Len(t.array) THEN t.array[n] ELSE t.hash[t.order[n - Len(t.array)]]

\* the slot of a key handed to next: 0 for nil, -1 for a key not in the table
slotOf(t, k) ==
    IF k = NilV THEN 0
    ELSE IF k.t = "int" /\ k.i \in 1..Len(t.array) THEN k.i
    ELSE IF k \in DOMAIN t.hash
    THEN Len(t.array) + (CHOOSE j \in 1..Len(t.order) : t.order[j] = k)
    ELSE -1

\* the first slot after slot n that holds a value, 0 when there is none
nextSlot(t, n) ==
    IF \A j \in (n + 1)..slotCount(t) : slotValue(t, j) = NilV THEN 0
    ELSE CHOOSE j \in (n + 1)..slotCount(t) :
            /\ slotValue(t, j) # NilV
            /\ \A i \in (n + 1)..(j - 1) : slotValue(t, i) = NilV

\* a next that resumes in the hash part one entry too far after the last
\* index of the array part
nextPastBoundary(t, k) ==
    LET from == IF k # NilV /\ slotOf(t, k) = Len(t.array)
                THEN slotOf(t, k) + 1 ELSE slotOf(t, k)
    IN  IF slotOf(t, k) < 0 THEN [err |-> "invalid key to 'next'"]
        ELSE IF nextSlot(t, from) = 0 THEN [key |-> NilV, value |-> NilV]
        ELSE [key |-> slotKey(t, nextSlot(t, from)),
              value |-> slotValue(t, nextSlot(t, from))]

\* next(t, k): the key after k and its value, (nil, nil) on exhaustion
next(t, k) ==
    IF slotOf(t, k) < 0 THEN [err |-> "invalid key to 'next'"]
    ELSE IF nextSlot(t, slotOf(t, k)) = 0 THEN [key |-> NilV, value |-> NilV]
    ELSE [key |-> slotKey(t, nextSlot(t, slotOf(t, k))),
          value |-> slotValue(t, nextSlot(t, slotOf(t, k)))]

\* a traversal that has not called next yet: for k in pairs(t)
NewTraversal == [key |-> NilV, seen |-> <<>>, done |-> FALSE]

\* an empty table and two loops over it, not started
InitTable ==
    /\ tbl = NewTable
    /\ iter = <<NewTraversal, NewTraversal>>
    /\ libCall = [f |-> "none"] /\ libRet = [f |-> "none"]
    /\ file = [none |-> TRUE]
    /\ IdleChunk /\ IdleScan /\ IdleNum /\ IdleVM

\* t[k] = v, before any loop has started
TableSet ==
    /\ tbl.sets < MaxSets
    /\ \A i \in 1..Len(iter) : iter[i] = NewTraversal
    /\ \E k \in TableKeys, v \in TableValues :
          \E t \in rawSet(tbl, k, v) : tbl' = [t EXCEPT !.sets = tbl.sets + 1]
    /\ UNCHANGED <<iter, libCall, libRet, file, dumpVars, scanVars, numVars, vmVars>>

\* one step of loop i: the generic for calls next with the key of the last step
TableNext ==
    /\ \E i \in 1..Len(iter) :
          /\ ~iter[i].done
          /\ iter' = [iter EXCEPT ![i] =
                IF next(tbl, iter[i].key).key = NilV
                THEN [iter[i] EXCEPT !.done = TRUE]
                ELSE [iter[i] EXCEPT !.key = next(tbl, iter[i].key).key,
                                     !.seen = Append(iter[i].seen,
                                                     next(tbl, iter[i].key).key)]]
    /\ UNCHANGED <<tbl, libCall, libRet, file, dumpVars, scanVars, numVars, vmVars>>

NextTable == TableSet \/ TableNext

SpecTable == InitTable /\ [][NextTable]_vars

\* the keys of t whose value is not nil
LiveKeys(t) ==
    {KInt(i) : i \in {j \in 1..Len(t.array) : t.array[j] # NilV}}
        \cup {k \in DOMAIN t.hash : t.hash[k] # NilV}

SeenKeys(i) == {iter[i].seen[j] : j \in 1..Len(iter[i].seen)}

\* C11: a traversal of an unmodified table from the nil key visits every key
\* whose value is not nil exactly once, in the array part and in the hash
\* part, and then reports exhaustion; each of two traversals in progress at
\* the same time sees the whole key set.
TraversalComplete ==
    \A i \in 1..Len(iter) :
        /\ Cardinality(SeenKeys(i)) = Len(iter[i].seen)
        /\ SeenKeys(i) \subseteq LiveKeys(tbl)
        /\ iter[i].done => SeenKeys(i) = LiveKeys(tbl)
        /\ (~iter[i].done /\ SeenKeys(i) = LiveKeys(tbl))
              => next(tbl, iter[i].key) = [key |-> NilV, value |-> NilV]

\* the keys 1, 2, 3 are in the array part and 16 in the hash part; the second
\* loop has seen all four and ended while the first is two keys in
TraversalCompleteWitness ==
    /\ Len(iter) = 2
    /\ Len(tbl.array) = 3 /\ DOMAIN tbl.hash = {KInt(16)}
    /\ LiveKeys(tbl) = {KInt(1), KInt(2), KInt(3), KInt(16)}
    /\ Len(iter[1].seen) = 2 /\ ~iter[1].done
    /\ iter[2].done /\ SeenKeys(2) = LiveKeys(tbl)

-----------------------------------------------------------------------------
(* Tag methods: table.tagMethod and State.tagMethodByObject.  A metatable    *)
(* is a table of entries by event name with the flags byte in which          *)
(* tagMethod notes the events it found absent.  The width of flags and what  *)
(* a write to the table does to them are not part of the sources: both are   *)
(* left open (flagBits; a write keeps the flags or clears them).             *)

tmIndex == 0
tmEq == 5
tmMod == 9
tmCall == 23
tmCount == 24

eventNames ==
    <<"__index", "__newindex", "__gc", "__mode", "__len", "__eq", "__add",
      "__sub", "__mul", "__mod", "__pow", "__div", "__idiv", "__band", "__bor",
      "__bxor", "__shl", "__shr", "__unm", "__bnot", "__lt", "__le",
      "__concat", "__call">>

\* l.global.tagMethodNames[event]
tagMethodNames(event) == eventNames[event + 1]

\* the events the model looks up and writes, on both sides of bit 8
TagEvents == {tmIndex, tmEq, tmMod, tmCall}

\* the values a metatable entry takes
Handlers == {StrV("f"), StrV("g")}

\* events.atString(name)
atString(events, name) == events.entries[name]

\* events.flags |= 1 << event, in a flags field of flagBits bits
noteAbsent(events, event) ==
    IF event < events.flagBits
    THEN [events EXCEPT !.flags = events.flags \cup {event}]
    ELSE events

\* a tagMethod that answers from the flags when they say the entry is absent
tagMethodFromFlags(events, event, name) ==
    IF event \in events.flags THEN [v |-> NilV, events |-> events]
    ELSE [v |-> atString(events, name),
          events |-> IF atString(events, name) = NilV
                     THEN noteAbsent(events, event) ELSE events]

\* tagMethod: the entry, and the table with the absence noted in its flags
tagMethod(events, event, name) ==
    [v |-> atString(events, name),
     events |-> IF atString(events, name) = NilV
                THEN noteAbsent(events, event) ELSE events]

\* the objects looked up: tables and userdata carry their metatable, any
\* other value gets the one of its type from the global state; hasMeta tells
\* whether that pointer is the metatable or nil
TagObjects ==
    [kind : {"table", "userdata", "string"}, hasMeta : BOOLEAN]

\* tagMethodByObject: nil without a metatable, else the entry of the event
tagMethodByObject(events, o, event) ==
    IF ~o.hasMeta THEN NilV ELSE atString(events, tagMethodNames(event))

\* a metatable without entries, shared by every object that has one
InitMeta ==
    /\ \E bits \in {8, 32} :
          tbl = [entries |-> [n \in {eventNames[i] : i \in 1..tmCount} |-> NilV],
                 flags |-> {}, flagBits |-> bits]
    /\ iter = <<>>
    /\ libCall = [f |-> "none"] /\ libRet = [f |-> "none"]
    /\ file = [none |-> TRUE]
    /\ IdleChunk /\ IdleScan /\ IdleNum /\ IdleVM

\* mt[name] = v: an entry is set, replaced or (v = nil) removed
MetaSet ==
    /\ \E e \in TagEvents, v \in Handlers \cup {NilV} :
          /\ tbl.entries[tagMethodNames(e)] # v
          /\ \E fl \in {tbl.flags, {}} :
                tbl' = [tbl EXCEPT !.entries[tagMethodNames(e)] = v, !.flags = fl]
          /\ libCall' = [f |-> "set", event |-> e]
    /\ libRet' = [f |-> "none"]
    /\ UNCHANGED <<iter, file, dumpVars, scanVars, numVars, vmVars>>

\* mt.tagMethod(event, tagMethodNames[event])
TagMethod ==
    /\ \E e \in TagEvents :
          /\ libCall' = [f |-> "tagMethod", event |-> e]
          /\ libRet' = [f |-> "tagMethod",
                        v |-> tagMethod(tbl, e, tagMethodNames(e)).v]
          /\ tbl' = tagMethod(tbl, e, tagMethodNames(e)).events
    /\ UNCHANGED <<iter, file, dumpVars, scanVars, numVars, vmVars>>

\* l.tagMethodByObject(o, event)
TagMethodByObject ==
    /\ \E e \in TagEvents, o \in TagObjects :
          /\ libCall' = [f |-> "tagMethodByObject", event |-> e, o |-> o]
          /\ libRet' = [f |-> "tagMethodByObject",
                        v |-> tagMethodByObject(tbl, o, e)]
    /\ UNCHANGED <<tbl, iter, file, dumpVars, scanVars, numVars, vmVars>>

NextMeta == MetaSet \/ TagMethod \/ TagMethodByObject

SpecMeta == InitMeta /\ [][NextMeta]_vars

\* the step is a lookup of event e through the metatable
IsLookupOf(e) ==
    /\ libRet'.f \in {"tagMethod", "tagMethodByObject"}
    /\ libCall'.event = e
    /\ libCall'.f = "tagMethodByObject" => libCall'.o.hasMeta

\* C12: changes to a metatable are visible on the next lookup: for every
\* event, whatever earlier lookups found and noted in the flags, a lookup
\* through tagMethod or tagMethodByObject returns the entry as the last write
\* left it: the new value after a set, nil after a removal.
MetatableVisible ==
    [][\A e \in TagEvents :
          IsLookupOf(e) => libRet'.v = tbl.entries[tagMethodNames(e)]]_vars

\* tagMethod found __index absent and noted it; the entry was then set, and
\* the lookup that follows, with the note still in the flags, returns it
MetatableVisibleWitness ==
    /\ libCall = [f |-> "tagMethod", event |-> tmIndex]
    /\ tmIndex \in tbl.flags
    /\ libRet.v \in Handlers
    /\ tbl.entries["__index"] = libRet.v

-----------------------------------------------------------------------------
(* Protected calls.  State.protectedCall, throw and the stack primitives    *)
(* are not part of the sources: they are modelled as section 4.3 and 6 of   *)
(* the design describe the protected-call boundary.  toNumber, parseNumber  *)
(* and scanError are from types.go and scanner.go.                          *)

\* the number of protected calls in progress at a time
MaxProtected == 2

\* the error values thrown in a run, apart from the scanner's message
ErrorValues == {2}

\* the message scanError pushes, as a stack value
SyntaxErrorMessage == 4

\* the State as the protected call sees it
Machine(stk, ci, cells, open) ==
    [stack |-> stk, callInfo |-> ci, cells |-> cells, open |-> open]

\* l.push(message); l.throw(...): the state the throw leaves to its handler
scanError(m, message) == [m EXCEPT !.stack = Append(m.stack, message)]

\* a protected call that keeps the stack as the throw left it
protectedCallKeepsTop(m, thrown, oldTop, frames) ==
    IF ~thrown THEN [m |-> m, err |-> FALSE]
    ELSE [m |-> [m EXCEPT !.callInfo = SubSeq(m.callInfo, 1, frames)],
          err |-> TRUE]

\* protectedCall(f, oldTop, errorFunc) once f has run to m or thrown in m:
\* on failure the upvalues of the slots from oldTop on are closed, the error
\* value (the top of the stack at the throw) becomes the slot oldTop, the top
\* is oldTop + 1, and the callInfo is the one saved at entry (the frame at
\* depth frames of the chain)
protectedCall(m, thrown, oldTop, frames) ==
    IF ~thrown THEN [m |-> m, err |-> FALSE]
    ELSE [m |-> Machine(SubSeq(m.stack, 1, oldTop) \o <<m.stack[Len(m.stack)]>>,
                        SubSeq(m.callInfo, 1, frames),
                        closeUpValues(m.cells, m.stack, oldTop + 1),
                        SelectSeq(m.open, LAMBDA id : m.cells[id].index <= oldTop)),
          err |-> TRUE]

\* l.pop()
pop(m) == [m EXCEPT !.stack = SubSeq(m.stack, 1, Len(m.stack) - 1)]

\* scanner.scan() as parseNumber meets it: a sign is a token of its own, two
\* minus signs start a comment that runs to the end of the text
parseScan(s) ==
    Let(IF s.current = 0 THEN advance(s) ELSE s, LAMBDA s1 :
        IF s1.current = ch.minus
        THEN IF advance(s1).current = ch.minus
             THEN Scanned([t |-> tkEOS], [s1 EXCEPT !.at = Len(s1.r), !.current = endOfStream])
             ELSE Scanned([t |-> "-"], advance(s1))
        ELSE IF s1.current = ch.plus THEN Scanned([t |-> "+"], advance(s1))
        ELSE scan(s1))

\* getNumber's second result
isNumberToken(token) == token.t \in {tkNumber, tkInteger}

\* the end of parseNumber: ok unless something follows the number.  (The
\* numbers of the model are finite: ParseFloat fails on overflow and no text
\* is a hexadecimal float.)
parseNumberEnd(s) ==
    Let(parseScan(s), LAMBDA r :
        IF r.tok.t = "error" THEN [ok |-> FALSE, thrown |-> TRUE]
        ELSE [ok |-> r.tok.t = tkEOS, thrown |-> FALSE])

\* parseNumber(s), s without white space: ok, or the scanner has thrown
parseNumber(text) ==
    IF text = <<>> THEN [ok |-> FALSE, thrown |-> FALSE]
    ELSE
    Let(parseScan(newScanner(text)), LAMBDA r1 :
        IF r1.tok.t = "error" THEN [ok |-> FALSE, thrown |-> TRUE]
        ELSE IF isNumberToken(r1.tok) THEN parseNumberEnd(r1.s)
        ELSE IF r1.tok.t \notin {"-", "+"} THEN [ok |-> FALSE, thrown |-> FALSE]
        ELSE
        Let(parseScan(r1.s), LAMBDA r2 :
            IF r2.tok.t = "error" THEN [ok |-> FALSE, thrown |-> TRUE]
            ELSE IF isNumberToken(r2.tok) THEN parseNumberEnd(r2.s)
            ELSE [ok |-> FALSE, thrown |-> FALSE]))

\* toNumber(r) for a string r, parsed being what parseNumber makes of it:
\* parseNumber runs under a protected call with oldTop = l.top; on failure
\* the error message is popped
toNumber(m, parsed) ==
    Let(protectedCall(IF parsed.thrown THEN scanError(m, SyntaxErrorMessage) ELSE m,
                      parsed.thrown, Len(m.stack), Len(m.callInfo)),
        LAMBDA r :
            IF r.err THEN [m |-> pop(r.m), ok |-> FALSE]
            ELSE [m |-> r.m, ok |-> parsed.ok])

\* the strings handed to toNumber, with whether Lua reads them as a number
\* ("range": a numeral too large for a float)
NumberStrings ==
    {[text |-> Dec(<<1, 0>>), valid |-> "yes"],
     [text |-> <<ch.minus>> \o Dec(<<5>>), valid |-> "yes"],
     [text |-> <<ch.plus>> \o Dec(<<5>>) \o <<ch.dot>> \o Dec(<<2, 5>>), valid |-> "yes"],
     [text |-> <<ch.zero, ch.x>> \o Hex(<<1, 10>>, TRUE), valid |-> "yes"],
     [text |-> Dec(<<1>>) \o ExpPart(ch.e, <<>>, <<5>>), valid |-> "yes"],
     [text |-> Dec(<<1>>) \o ExpPart(ch.e, <<>>, <<3, 0, 9>>), valid |-> "range"],
     [text |-> <<>>, valid |-> "no"],
     [text |-> <<ch.x>>, valid |-> "no"],
     [text |-> <<ch.dot>>, valid |-> "no"],
     [text |-> <<ch.minus>>, valid |-> "no"],
     [text |-> <<ch.minus, ch.minus>> \o Dec(<<5>>), valid |-> "no"],
     [text |-> <<ch.minus, ch.plus>> \o Dec(<<5>>), valid |-> "no"],
     [text |-> Dec(<<5>>) \o <<ch.x>>, valid |-> "no"],
     [text |-> Dec(<<1>>) \o <<ch.dot, ch.dot>> \o Dec(<<2>>), valid |-> "no"],
     [text |-> <<ch.zero, ch.x>>, valid |-> "no"],
     [text |-> <<ch.minus, ch.zero, ch.X>>, valid |-> "no"],
     [text |-> Dec(<<1>>) \o <<ch.e>>, valid |-> "no"],
     [text |-> Dec(<<1>>) \o <<ch.e, ch.plus>>, valid |-> "no"],
     [text |-> Dec(<<1>>) \o <<ch.dot>> \o Dec(<<5>>) \o <<ch.dot>>, valid |-> "no"]}

\* parseNumber of each of the strings, worked out when the run starts
Parsed == libCall.parsed

\* the State of the model as a Machine
ThisMachine == Machine(stack, callInfo, upValueCells, openUpValues)

\* the protected call entered last
Protected == libCall.pcalls[Len(libCall.pcalls)]

\* the main chunk has been called by the host
InitProtect ==
    /\ stack = <<0>> \o Zeros(FrameLocals)
    /\ callInfo = <<Frame(1, 0, -1)>>
    /\ upValueCells = <<>> /\ openUpValues = <<>>
    /\ closures = <<>>
    /\ nextAct = 1
    /\ libCall = [f |-> "protectedCall", pcalls |-> <<>>,
                  parsed |-> [n \in NumberStrings |-> parseNumber(n.text)]]
    /\ libRet = [f |-> "none"]
    /\ tbl = [none |-> TRUE] /\ iter = <<>> /\ file = [none |-> TRUE]
    /\ IdleChunk /\ IdleScan /\ IdleNum

\* protectedCall is entered: the top and the callInfo are saved (entry is
\* the chain as it is now, kept for the properties)
ProtEnter ==
    /\ Len(libCall.pcalls) < MaxProtected
    /\ Len(stack) = Top.function + FrameLocals
    /\ libCall' = [libCall EXCEPT !.pcalls =
                      Append(@, [oldTop |-> Len(stack), frames |-> Len(callInfo),
                                 entry |-> callInfo])]
    /\ libRet' = [f |-> "none"]
    /\ UNCHANGED <<stack, callInfo, upValueCells, openUpValues, closures, nextAct,
                   tbl, iter, file, dumpVars, scanVars, numVars>>

\* l.pop(): a value above the locals of the running function, such as the
\* error value a protected call has left, is popped
ProtPop ==
    /\ Len(stack) > Top.function + FrameLocals
    /\ stack' = pop(ThisMachine).stack
    /\ libRet' = [f |-> "none"]
    /\ UNCHANGED <<callInfo, upValueCells, openUpValues, closures, nextAct,
                   libCall, tbl, iter, file, dumpVars, scanVars, numVars>>

\* CLOSURE: a closure, the only one of the run, captures a local of the
\* running function
ProtClosure ==
    /\ closures = <<>>
    /\ \E i \in 1..FrameLocals :
          LET slot == Top.function + i
              id == captureUpValue(upValueCells, openUpValues, slot)
          IN  /\ upValueCells' = Append(upValueCells, OpenUpValue(slot, Top.act))
              /\ openUpValues' = insertUpValue(upValueCells, openUpValues, id, slot)
              /\ closures' = Append(closures, [upValue |-> id, act |-> Top.act, slot |-> slot])
    /\ libRet' = [f |-> "none"]
    /\ UNCHANGED <<stack, callInfo, nextAct, libCall, tbl, iter, file,
                   dumpVars, scanVars, numVars>>

\* a function is pushed and called
ProtCall ==
    /\ Len(callInfo) < MaxCallDepth /\ nextAct < MaxActs
    /\ stack' = stack \o <<0>> \o Zeros(FrameLocals)
    /\ callInfo' = call(callInfo, Len(stack) + 1, nextAct)
    /\ nextAct' = nextAct + 1
    /\ libRet' = [f |-> "none"]
    /\ UNCHANGED <<upValueCells, openUpValues, closures, libCall, tbl, iter, file,
                   dumpVars, scanVars, numVars>>

\* a function called since the protected call was entered returns
ProtReturn ==
    /\ Len(callInfo) > (IF libCall.pcalls = <<>> THEN 1 ELSE Protected.frames)
    /\ upValueCells' = closeUpValues(upValueCells, stack, base(Top))
    /\ openUpValues' = SelectSeq(openUpValues, LAMBDA id : upValueCells'[id].open)
    /\ stack' = SubSeq(stack, 1, Top.function - 1) \o <<stack[base(Top)]>>
    /\ callInfo' = SubSeq(callInfo, 1, Len(callInfo) - 1)
    /\ libRet' = [f |-> "none"]
    /\ UNCHANGED <<closures, nextAct, libCall, tbl, iter, file,
                   dumpVars, scanVars, numVars>>

\* the function under the protected call has returned: no error
ProtLeave ==
    /\ libCall.pcalls # <<>> /\ Len(callInfo) = Protected.frames
    /\ libCall' = [libCall EXCEPT !.pcalls = SubSeq(@, 1, Len(@) - 1)]
    /\ libRet' = [f |-> "protectedCall",
                  err |-> protectedCall(ThisMachine, FALSE, Protected.oldTop,
                                        Protected.frames).err]
    /\ UNCHANGED <<stack, callInfo, upValueCells, openUpValues, closures, nextAct,
                   tbl, iter, file, dumpVars, scanVars, numVars>>

\* an error value is pushed and thrown: the protected call entered last
\* catches it
ProtThrow ==
    /\ libCall.pcalls # <<>>
    /\ \E e \in ErrorValues :
          LET r == protectedCall(scanError(ThisMachine, e), TRUE,
                                 Protected.oldTop, Protected.frames)
          IN  /\ stack' = r.m.stack
              /\ callInfo' = r.m.callInfo
              /\ upValueCells' = r.m.cells
              /\ openUpValues' = r.m.open
              /\ libRet' = [f |-> "protectedCall", err |-> r.err]
    /\ libCall' = [libCall EXCEPT !.pcalls = SubSeq(@, 1, Len(@) - 1)]
    /\ UNCHANGED <<closures, nextAct, tbl, iter, file, dumpVars, scanVars, numVars>>

\* l.toNumber(s) for a string s
ToNumber ==
    /\ \E n \in NumberStrings :
          LET r == toNumber(ThisMachine, Parsed[n])
          IN  /\ stack' = r.m.stack
              /\ callInfo' = r.m.callInfo
              /\ upValueCells' = r.m.cells
              /\ openUpValues' = r.m.open
              /\ libRet' = [f |-> "toNumber", ok |-> r.ok, valid |-> n.valid,
                            thrown |-> Parsed[n].thrown]
    /\ UNCHANGED <<closures, nextAct, libCall, tbl, iter, file,
                   dumpVars, scanVars, numVars>>

NextProtect ==
    \/ ProtEnter
    \/ ProtPop
    \/ ProtClosure
    \/ ProtCall
    \/ ProtReturn
    \/ ProtLeave
    \/ ProtThrow
    \/ ToNumber

SpecProtect == InitProtect /\ [][NextProtect]_vars

\* the step ends a protected call with a failure
IsCaughtThrow ==
    /\ libCall.pcalls # <<>>
    /\ Len(libCall'.pcalls) < Len(libCall.pcalls)
    /\ libRet'.f = "protectedCall" /\ libRet'.err

\* C13: when the function run under a protected call raises, the stack top
\* is the top recorded at entry plus exactly one error value and the
\* call-info chain is the one of the frame at entry; toNumber of a string
\* that is not a valid number returns ok = false and leaves the stack height
\* (and the call-info chain) as it was before the call.
ProtectedCallUnwinds ==
    [][/\ IsCaughtThrow =>
            /\ Len(stack') = Protected.oldTop + 1
            /\ SubSeq(stack', 1, Protected.oldTop) = SubSeq(stack, 1, Protected.oldTop)
            /\ stack'[Len(stack')] \in ErrorValues
            /\ callInfo' = Protected.entry
       /\ libRet'.f = "toNumber" =>
            /\ Len(stack') = Len(stack)
            /\ callInfo' = callInfo
            /\ libRet'.valid = "no" => ~libRet'.ok]_vars

\* toNumber of a string on which the scanner throws has failed inside a
\* function called under a protected call, after an earlier protected call
\* has caught an error and left its value on the stack
ProtectedCallUnwindsWitness ==
    /\ libRet.f = "toNumber" /\ ~libRet.ok
    /\ libRet.valid = "no" /\ libRet.thrown
    /\ Len(libCall.pcalls) = 1 /\ Len(callInfo) > Protected.frames
    /\ \E i \in 1..Len(stack) : stack[i] \in ErrorValues

-----------------------------------------------------------------------------
(* table.move (table.go).  A table is the function from its integer keys to *)
(* their values, nil for the keys it does not hold; the tables have no      *)
(* metatable, so l.Table and l.SetTable are the raw get and set.            *)

\* the largest index handed to table.move
MaxIndex == 4

\* the arguments f, e and t
MoveIndexes == (-1)..MaxIndex

\* the keys a move of the model can reach
MoveKeys == (-1)..(2 * MaxIndex + 1)

\* the table that holds the values vs at the keys 1..Len(vs), nil elsewhere
TableOf(vs) == [k \in MoveKeys |-> IF k \in 1..Len(vs) THEN vs[k] ELSE NilV]

\* the tables of a call: a1 is argument 1, a2 another table
Tables(a1, a2) == [a1 |-> a1, a2 |-> a2]

\* the table argument 5 stands for: "none" and "a1" are the table of argument 1
Destination(arg5) == IF arg5 = "a2" THEN "a2" ELSE "a1"

\* getVal(idx) and setVal(idx) of one step of the copy
moveStep(ts, dst, from, to) == [ts EXCEPT ![dst][to] = ts.a1[from]]

\* for i := 0; i < n; i++ { getVal(f + i); setVal(t + i) }
RECURSIVE moveForward(_, _, _, _, _, _)
moveForward(ts, dst, f, t, i, n) ==
    IF i >= n THEN ts
    ELSE moveForward(moveStep(ts, dst, f + i, t + i), dst, f, t, i + 1, n)

\* for i := n - 1; i >= 0; i-- { getVal(f + i); setVal(t + i) }
RECURSIVE moveBackward(_, _, _, _, _)
moveBackward(ts, dst, f, t, i) ==
    IF i < 0 THEN ts
    ELSE moveBackward(moveStep(ts, dst, f + i, t + i), dst, f, t, i - 1)

\* a move that always copies forward
tableMoveForwardOnly(ts, f, e, t, arg5) ==
    [tables |-> IF e >= f
                THEN moveForward(ts, Destination(arg5), f, t, 0, e - f + 1)
                ELSE ts,
     v |-> Destination(arg5)]

\* table.move(a1, f, e, t [, a2]): the tables after the call and the table
\* returned.  (For the indexes of the model both argument checks pass: they
\* only refuse ranges that reach maxInt.)
tableMove(ts, f, e, t, arg5) ==
    [tables |->
        IF e >= f
        THEN IF t > e \/ t <= f \/ Destination(arg5) # "a1"
             THEN moveForward(ts, Destination(arg5), f, t, 0, e - f + 1)
             ELSE moveBackward(ts, Destination(arg5), f, t, e - f)
        ELSE ts,
     v |-> Destination(arg5)]

\* two tables, the first a sequence (with a hole or not), no call made
InitMove ==
    /\ \E vs \in {<<KInt(11), KInt(12), KInt(13), KInt(14)>>,
                  <<KInt(11), NilV, KInt(13)>>} :
          tbl = Tables(TableOf(vs), TableOf(<<KInt(21), KInt(22)>>))
    /\ iter = <<>>
    /\ libCall = [f |-> "none"] /\ libRet = [f |-> "none"]
    /\ file = [none |-> TRUE]
    /\ IdleChunk /\ IdleScan /\ IdleNum /\ IdleVM

\* table.move(a1, f, e, t) and table.move(a1, f, e, t, a2), a2 being a1 or not
TableMove ==
    /\ libCall.f = "none"
    /\ \E f \in MoveIndexes, e \in MoveIndexes, t \in MoveIndexes,
          arg5 \in {"none", "a1", "a2"} :
          /\ libCall' = [f |-> "move", from |-> f, e |-> e, t |-> t, a2 |-> arg5]
          /\ tbl' = tableMove(tbl, f, e, t, arg5).tables
          /\ libRet' = [f |-> "move", v |-> tableMove(tbl, f, e, t, arg5).v]
    /\ UNCHANGED <<iter, file, dumpVars, scanVars, numVars, vmVars>>

NextMove == TableMove

SpecMove == InitMove /\ [][NextMove]_vars

\* C14: table.move has memmove semantics: when e >= f the destination holds
\* at t+k the value a1 had at f+k before the call, for k in 0..e-f, also when
\* the ranges overlap in the same table in either direction, and no other key
\* of either table changes; when e < f nothing changes; the destination table
\* is returned.
TableMoveSemantics ==
    [][libCall'.f = "move" /\ libCall.f = "none" =>
          LET c == libCall'
              dst == IF c.a2 = "a2" THEN "a2" ELSE "a1"
              range == IF c.e >= c.from THEN c.t..(c.t + c.e - c.from) ELSE {}
          IN  /\ \A k \in range : tbl'[dst][k] = tbl.a1[c.from + (k - c.t)]
              /\ \A k \in MoveKeys \ range : tbl'[dst][k] = tbl[dst][k]
              /\ dst = "a2" => tbl'.a1 = tbl.a1
              /\ dst = "a1" => tbl'.a2 = tbl.a2
              /\ libRet'.v = dst]_vars

\* table.move(t, 1, 3, 2) on {11, 12, 13, 14}: the source lies before the
\* destination in the same table and overlaps it
TableMoveSemanticsWitness ==
    /\ libCall = [f |-> "move", from |-> 1, e |-> 3, t |-> 2, a2 |-> "none"]
    /\ tbl.a1[1] = KInt(11) /\ tbl.a1[2] = KInt(11) /\ tbl.a1[3] = KInt(12)
    /\ tbl.a1[4] = KInt(13)
    /\ libRet.v = "a1"

-----------------------------------------------------------------------------
(* string.pack, string.unpack and string.packsize (the string library in    *)
(* string.go).  A format is the sequence of its characters; integers are    *)
(* 8-byte words; the packed string is a sequence of bytes.  The options of  *)
(* the model are the integer options, d and n, x, X, ! and the byte-order   *)
(* marks; f, c, s and z do not occur in its formats.                        *)

\* (maxSize - 9) / 10 of getNum
getNumLimit == 214748363

\* the largest size of i[n], I[n] and !
maxIntegralSize == 16

\* the size of a lua_Integer
luaIntegerSize == 8

Digits == <<"0", "1", "2", "3", "4", "5", "6", "7", "8", "9">>

isDigit(c) == \E i \in 1..10 : Digits[i] = c

digitValue(c) == (CHOOSE i \in 1..10 : Digits[i] = c) - 1

\* int64 order on words
IntLess(a, b) ==
    LexLess([a EXCEPT ![1] = (a[1] + 128) % 256], [b EXCEPT ![1] = (b[1] + 128) % 256])

\* the word of 2^k, k in 0..63
WordPow2(k) == [j \in 1..8 |-> IF j = 8 - (k \div 8) THEN Pow2(k % 8) ELSE 0]

\* newPackState(fmt); native is nativeEndian() == binary.LittleEndian
newPackState(fmt, native) ==
    [fmt |-> fmt, pos |-> 0, littleEnd |-> native, maxAlign |-> 1,
     alignExplicit |-> FALSE, native |-> native]

eof(ps) == ps.pos >= Len(ps.fmt)

\* ps.peek(): the option character, "" for the byte 0 at the end
peek(ps) == IF eof(ps) THEN "" ELSE ps.fmt[ps.pos + 1]

\* ps.next(): the character and the packState after it
packNext(ps) ==
    [c |-> peek(ps), ps |-> IF eof(ps) THEN ps ELSE [ps EXCEPT !.pos = ps.pos + 1]]

RECURSIVE getNumLoop(_, _)
getNumLoop(ps, n) ==
    IF ~eof(ps) /\ isDigit(peek(ps)) /\ n <= getNumLimit
    THEN getNumLoop(packNext(ps).ps, n * 10 + digitValue(peek(ps)))
    ELSE [n |-> n, ps |-> ps]

\* ps.getNum(def), which is also ps.optSize(def)
getNum(ps, def) ==
    IF eof(ps) \/ ~isDigit(peek(ps)) THEN [n |-> def, ps |-> ps]
    ELSE getNumLoop(ps, 0)

\* ps.align(size)
align(ps, size) == IF size > ps.maxAlign THEN ps.maxAlign ELSE size

isPowerOf2(n) == n \in {1, 2, 4, 8, 16, 32, 64, 128}

\* the pad of addPadding and of alignPos
padding(at, al) == IF al <= 1 THEN 0 ELSE (al - (at % al)) % al

alignPos(at, al) == at + padding(at, al)

\* bytes, most significant first, in the byte order of the packState
ordered(ps, bytes) == IF ps.littleEnd THEN Reverse(bytes) ELSE bytes

NoPackError == [kind |-> "none"]

\* Errorf and ArgumentError: kind tells a refused format from a refused argument
PackError(kind, msg) == [kind |-> kind, msg |-> msg]

failed(st, kind, msg) == [st EXCEPT !.err = PackError(kind, msg)]

\* the size and further state of the option after X (getOptionSizeForX)
getOptionSizeForX(opt, ps) ==
    IF opt \in {"b", "B", "x"} THEN [n |-> 1, ps |-> ps, ok |-> TRUE]
    ELSE IF opt \in {"h", "H"} THEN [n |-> 2, ps |-> ps, ok |-> TRUE]
    ELSE IF opt \in {"l", "L", "f"} THEN [n |-> 4, ps |-> ps, ok |-> TRUE]
    ELSE IF opt \in {"j", "J", "T", "d", "n"} THEN [n |-> 8, ps |-> ps, ok |-> TRUE]
    ELSE IF opt \in {"i", "I"}
    THEN [n |-> getNum(ps, 4).n, ps |-> getNum(ps, 4).ps,
          ok |-> getNum(ps, 4).n >= 1 /\ getNum(ps, 4).n <= maxIntegralSize]
    ELSE IF opt = "s"
    THEN [n |-> getNum(ps, 8).n, ps |-> getNum(ps, 8).ps,
          ok |-> getNum(ps, 8).n >= 1 /\ getNum(ps, 8).n <= maxIntegralSize]
    ELSE [n |-> 1, ps |-> ps, ok |-> FALSE]

\* the pack loop's state with the padding for al and the bytes written and
\* the argument consumed
written(st, al, bytes) ==
    [st EXCEPT !.buf = st.buf \o Zeros(padding(st.totalSize, al)) \o bytes,
               !.totalSize = st.totalSize + padding(st.totalSize, al) + Len(bytes),
               !.arg = st.arg + 1]

\* i[n] and I[n] of pack: the range check below 8 bytes, the alignment check,
\* then the low size bytes of the value extended to 16 bytes
packInt(st, opt, size, n) ==
    IF size < luaIntegerSize /\ opt = "I"
          /\ (IntLess(n, Zeros(8)) \/ ~LexLess(n, WordPow2(size * 8)))
    THEN failed(st, "argument", "unsigned overflow")
    ELSE IF size < luaIntegerSize /\ opt = "i"
          /\ (IntLess(n, Negate(WordPow2(size * 8 - 1)))
                \/ ~IntLess(n, WordPow2(size * 8 - 1)))
    THEN failed(st, "argument", "integer overflow")
    ELSE IF st.ps.alignExplicit /\ align(st.ps, size) > 1
              /\ ~isPowerOf2(align(st.ps, size))
    THEN failed(st, "format", "format asks for alignment not power of 2")
    ELSE written(st, align(st.ps, size),
                 ordered(st.ps, SubSeq(Rep(IF opt = "i" /\ IntLess(n, Zeros(8))
                                           THEN 255 ELSE 0, 8) \o n,
                                       17 - size, 16)))

\* one option of stringPack that takes an integer argument n
packArgument(st, opt, n) ==
    IF opt = "b"
    THEN IF IntLess(n, Int64Word(-128)) \/ IntLess(Int64Word(127), n)
         THEN failed(st, "argument", "integer overflow")
         ELSE written(st, 1, <<n[8]>>)
    ELSE IF opt = "B"
    THEN IF IntLess(n, Zeros(8)) \/ IntLess(Int64Word(255), n)
         THEN failed(st, "argument", "unsigned overflow")
         ELSE written(st, 1, <<n[8]>>)
    ELSE IF opt \in {"h", "H"}
    THEN written(st, align(st.ps, 2), ordered(st.ps, SubSeq(n, 7, 8)))
    ELSE IF opt \in {"l", "L"}
    THEN written(st, align(st.ps, 4), ordered(st.ps, SubSeq(n, 5, 8)))
    ELSE IF opt \in {"j", "J"}
    THEN written(st, align(st.ps, 8), ordered(st.ps, n))
    ELSE IF opt = "T"
    THEN IF IntLess(n, Zeros(8)) THEN failed(st, "argument", "value out of range")
         ELSE written(st, align(st.ps, 8), ordered(st.ps, n))
    ELSE IF opt \in {"d", "n"}
    THEN written(st, align(st.ps, 8), ordered(st.ps, Float64OfInt(n)))
    ELSE Let(getNum(st.ps, 4), LAMBDA g :
             IF g.n < 1 \/ g.n > maxIntegralSize
             THEN failed(st, "format", "integral size out of limits [1,16]")
             ELSE packInt([st EXCEPT !.ps = g.ps], opt, g.n, n))

\* the options that take an argument
ArgumentOptions == {"b", "B", "h", "H", "l", "L", "j", "J", "T", "i", "I", "d", "n"}

\* one option of stringPack, opt having been read
packOption(st, opt, args) ==
    IF opt = " " THEN st
    ELSE IF opt = "<" THEN [st EXCEPT !.ps.littleEnd = TRUE]
    ELSE IF opt = ">" THEN [st EXCEPT !.ps.littleEnd = FALSE]
    ELSE IF opt = "=" THEN [st EXCEPT !.ps.littleEnd = st.ps.native]
    ELSE IF opt = "!"
    THEN Let(getNum(st.ps, 8), LAMBDA g :
             IF g.n < 1 \/ g.n > maxIntegralSize
             THEN failed(st, "format", "integral size out of limits [1,16]")
             ELSE [st EXCEPT !.ps = [g.ps EXCEPT !.maxAlign = g.n,
                                                 !.alignExplicit = TRUE]])
    ELSE IF opt \in ArgumentOptions
    THEN IF opt \in {"i", "I"} /\ (getNum(st.ps, 4).n < 1
                                    \/ getNum(st.ps, 4).n > maxIntegralSize)
         THEN failed(st, "format", "integral size out of limits [1,16]")
         ELSE IF st.arg > Len(args)
         THEN failed(st, "argument", "number expected, got no value")
         ELSE packArgument(st, opt, args[st.arg])
    ELSE IF opt = "x"
    THEN [st EXCEPT !.buf = Append(st.buf, 0), !.totalSize = st.totalSize + 1]
    ELSE IF opt = "X"
    THEN IF eof(st.ps) THEN failed(st, "format", "invalid next option for option 'X'")
         ELSE Let(getOptionSizeForX(peek(st.ps), packNext(st.ps).ps), LAMBDA x :
                  IF ~x.ok THEN failed(st, "format", "invalid next option for option 'X'")
                  ELSE [st EXCEPT !.ps = x.ps,
                                  !.buf = st.buf \o Zeros(padding(st.totalSize,
                                                                  align(x.ps, x.n))),
                                  !.totalSize = alignPos(st.totalSize, align(x.ps, x.n))])
    ELSE failed(st, "format", "invalid format option")

RECURSIVE packLoop(_, _)
packLoop(st, args) ==
    IF st.err # NoPackError \/ eof(st.ps) THEN st
    ELSE packLoop(packOption([st EXCEPT !.ps = packNext(st.ps).ps],
                             peek(st.ps), args), args)

\* string.pack(fmt, ...): the packed string, or the error raised
stringPack(fmt, args, native) ==
    Let(packLoop([ps |-> newPackState(fmt, native), buf |-> <<>>, totalSize |-> 0,
                  arg |-> 1, err |-> NoPackError], args),
        LAMBDA st : [s |-> st.buf, err |-> st.err])

\* the size bytes of data from the 0-based position at, most significant first
dataBytes(ps, data, at, size) ==
    IF ps.littleEnd THEN Reverse(SubSeq(data, at + 1, at + size))
    ELSE SubSeq(data, at + 1, at + size)

\* the unpack loop's state after an integer of size bytes is read at the
\* aligned position: v is its word
unpacked(st, at, size, v) ==
    [st EXCEPT !.pos = at + size, !.results = Append(st.results, v)]

\* the integer options of stringUnpack; signed tells i from I, b from B ...
unpackInt(st, data, size, al, signed) ==
    Let(alignPos(st.pos, al), LAMBDA at :
        IF at + size > Len(data) THEN failed(st, "data", "data string too short")
        ELSE
        Let(dataBytes(st.ps, data, at, size), LAMBDA m :
            IF size <= luaIntegerSize
            THEN unpacked(st, at, size,
                          Rep(IF signed /\ m[1] >= 128 THEN 255 ELSE 0,
                              luaIntegerSize - size) \o m)
            ELSE IF \E i \in 1..(size - luaIntegerSize) :
                       m[i] # (IF signed /\ m[size - 7] >= 128 THEN 255 ELSE 0)
            THEN failed(st, "data", "integer does not fit into Lua Integer")
            ELSE unpacked(st, at, size, SubSeq(m, size - 7, size))))

\* one option of stringUnpack, opt having been read
unpackOption(st, opt, data) ==
    IF opt = " " THEN st
    ELSE IF opt = "<" THEN [st EXCEPT !.ps.littleEnd = TRUE]
    ELSE IF opt = ">" THEN [st EXCEPT !.ps.littleEnd = FALSE]
    ELSE IF opt = "=" THEN [st EXCEPT !.ps.littleEnd = st.ps.native]
    ELSE IF opt = "!"
    THEN [st EXCEPT !.ps = [getNum(st.ps, 8).ps EXCEPT !.maxAlign = getNum(st.ps, 8).n]]
    ELSE IF opt \in {"b", "B"} THEN unpackInt(st, data, 1, 1, opt = "b")
    ELSE IF opt \in {"h", "H"} THEN unpackInt(st, data, 2, align(st.ps, 2), opt = "h")
    ELSE IF opt \in {"l", "L"} THEN unpackInt(st, data, 4, align(st.ps, 4), opt = "l")
    ELSE IF opt \in {"j", "J", "T"} THEN unpackInt(st, data, 8, align(st.ps, 8), TRUE)
    ELSE IF opt \in {"i", "I"}
    THEN Let(getNum(st.ps, 4), LAMBDA g :
             IF g.n < 1 \/ g.n > maxIntegralSize
             THEN failed(st, "format", "integral size out of limits [1,16]")
             ELSE unpackInt([st EXCEPT !.ps = g.ps], data, g.n, align(g.ps, g.n),
                            opt = "i"))
    ELSE IF opt = "x"
    THEN IF st.pos >= Len(data) THEN failed(st, "data", "data string too short")
         ELSE [st EXCEPT !.pos = st.pos + 1]
    ELSE failed(st, "format", "invalid format option")

RECURSIVE unpackLoop(_, _)
unpackLoop(st, data) ==
    IF st.err # NoPackError \/ eof(st.ps) THEN st
    ELSE unpackLoop(unpackOption([st EXCEPT !.ps = packNext(st.ps).ps],
                                 peek(st.ps), data), data)

\* string.unpack(fmt, data): the values read and the position after them
\* (1-based), or the error raised
stringUnpack(fmt, data, native) ==
    Let(unpackLoop([ps |-> newPackState(fmt, native), pos |-> 0, results |-> <<>>,
                    err |-> NoPackError], data),
        LAMBDA st : [values |-> st.results, pos |-> st.pos + 1, err |-> st.err])

\* the integer options with their sizes: i[n] and I[n] for n in 1..8
IntOptions ==
    {[opt |-> <<o[1]>>, signed |-> o[2], size |-> o[3]] :
        o \in {<<"b", TRUE, 1>>, <<"B", FALSE, 1>>, <<"h", TRUE, 2>>,
               <<"H", FALSE, 2>>, <<"l", TRUE, 4>>, <<"L", FALSE, 4>>,
               <<"j", TRUE, 8>>, <<"J", FALSE, 8>>, <<"i", TRUE, 4>>,
               <<"I", FALSE, 4>>}}
    \cup {[opt |-> <<"i", Digits[n + 1]>>, signed |-> TRUE, size |-> n] :
            n \in 1..luaIntegerSize}
    \cup {[opt |-> <<"I", Digits[n + 1]>>, signed |-> FALSE, size |-> n] :
            n \in 1..luaIntegerSize}

\* x - 1
Pred(x) == Negate(WordMulAdd(Negate(x), 1, 1))

\* the integers packed: the ends of the ranges of every size, and small ones
PackValues ==
    {Int64Word(0), Int64Word(1), Int64Word(-1), Int64Word(100), minInt64, maxInt64}
    \cup UNION {{WordPow2(8 * n - 1), Pred(WordPow2(8 * n - 1)),
                 Negate(WordPow2(8 * n - 1)), Pred(Negate(WordPow2(8 * n - 1)))} :
                    n \in 1..(luaIntegerSize - 1)}
    \cup UNION {{WordPow2(8 * n), Pred(WordPow2(8 * n))} : n \in 1..(luaIntegerSize - 1)}

\* no call made; the platform's byte order is either
InitPack ==
    /\ \E native \in BOOLEAN : libCall = [f |-> "none", native |-> native]
    /\ libRet = [f |-> "none"]
    /\ tbl = [none |-> TRUE] /\ iter = <<>> /\ file = [none |-> TRUE]
    /\ IdleChunk /\ IdleScan /\ IdleNum /\ IdleVM

\* string.pack(fmt, v) for an integer option, with a byte-order mark or none
Pack ==
    /\ libCall.f = "none"
    /\ \E o \in IntOptions, mark \in {<<>>, <<"<">>, <<">">>, <<"=">>}, v \in PackValues :
          /\ libCall' = [f |-> "pack", native |-> libCall.native, fmt |-> mark \o o.opt,
                         o |-> o, v |-> v]
          /\ libRet' = [f |-> "pack",
                        r |-> stringPack(mark \o o.opt, <<v>>, libCall.native)]
    /\ UNCHANGED <<tbl, iter, file, dumpVars, scanVars, numVars, vmVars>>

\* string.unpack(fmt, s) on the string pack returned
Unpack ==
    /\ libCall.f = "pack" /\ libRet.r.err = NoPackError
    /\ libCall' = [libCall EXCEPT !.f = "unpack"]
    /\ libRet' = [f |-> "unpack", s |-> libRet.r.s,
                  r |-> stringUnpack(libCall.fmt, libRet.r.s, libCall.native)]
    /\ UNCHANGED <<tbl, iter, file, dumpVars, scanVars, numVars, vmVars>>

NextPack == Pack \/ Unpack

SpecPack == InitPack /\ [][NextPack]_vars

\* v is a value of the option: of size bytes, signed or unsigned (any 64-bit
\* pattern for 8 bytes)
FitsOption(o, v) ==
    \/ o.size = luaIntegerSize
    \/ o.signed /\ ~IntLess(v, Negate(WordPow2(8 * o.size - 1)))
                /\ IntLess(v, WordPow2(8 * o.size - 1))
    \/ ~o.signed /\ ~IntLess(v, Zeros(8)) /\ LexLess(v, WordPow2(8 * o.size))

\* C15: for every integer option b, B, h, H, l, L, j, J, i[n], I[n] (n in
\* 1..8), in either byte order, and every integer v that pack accepts, unpack
\* of the packed string returns v and the position one past the packed data;
\* a value that does not fit the option's size is refused by pack.
PackRoundTrip ==
    /\ libCall.f = "unpack" =>
          /\ libRet.r.err = NoPackError
          /\ libRet.r.values = <<libCall.v>>
          /\ libRet.r.pos = Len(libRet.s) + 1
    /\ (libCall.f = "pack" /\ ~FitsOption(libCall.o, libCall.v)) =>
          libRet.r.err # NoPackError

\* maxSize of stringPacksize
packMaxSize == 2147483647

\* addSize of stringPacksize
addSize(st, size) ==
    IF st.totalSize > packMaxSize - size
    THEN failed(st, "format", "format result too large")
    ELSE [st EXCEPT !.totalSize = st.totalSize + size]

\* alignPos and addSize for an option of the given size
sized(st, size) ==
    addSize([st EXCEPT !.totalSize = alignPos(st.totalSize, align(st.ps, size))], size)

\* one option of stringPacksize, opt having been read
packsizeOption(st, opt) ==
    IF opt \in {" ", "<", ">", "="} THEN st
    ELSE IF opt = "!"
    THEN [st EXCEPT !.ps = [getNum(st.ps, 8).ps EXCEPT !.maxAlign = getNum(st.ps, 8).n]]
    ELSE IF opt \in {"b", "B", "x"} THEN addSize(st, 1)
    ELSE IF opt \in {"h", "H"} THEN sized(st, 2)
    ELSE IF opt \in {"l", "L"} THEN sized(st, 4)
    ELSE IF opt \in {"j", "J", "T", "d", "n"} THEN sized(st, 8)
    ELSE IF opt \in {"i", "I"}
    THEN Let(getNum(st.ps, 4), LAMBDA g :
             IF g.n < 1 \/ g.n > maxIntegralSize
             THEN failed(st, "format", "integral size out of limits [1,16]")
             ELSE sized([st EXCEPT !.ps = g.ps], g.n))
    ELSE IF opt = "X"
    THEN IF eof(st.ps) THEN failed(st, "format", "invalid next option for option 'X'")
         ELSE Let(getOptionSizeForX(peek(st.ps), packNext(st.ps).ps), LAMBDA x :
                  IF ~x.ok THEN failed(st, "format", "invalid next option for option 'X'")
                  ELSE [st EXCEPT !.ps = x.ps,
                                  !.totalSize = alignPos(st.totalSize, align(x.ps, x.n))])
    ELSE failed(st, "format", "invalid format option")

RECURSIVE packsizeLoop(_)
packsizeLoop(st) ==
    IF st.err # NoPackError \/ eof(st.ps) THEN st
    ELSE packsizeLoop(packsizeOption([st EXCEPT !.ps = packNext(st.ps).ps], peek(st.ps)))

\* string.packsize(fmt): the size, or the error raised
stringPacksize(fmt, native) ==
    Let(packsizeLoop([ps |-> newPackState(fmt, native), totalSize |-> 0,
                      err |-> NoPackError]),
        LAMBDA st : [n |-> st.totalSize, err |-> st.err])

\* the parts formats are made of: what sets the byte order and the alignment
FormatPrefixes ==
    {<<>>, <<"!">>, <<"!", "2">>, <<"!", "4">>, <<"!", "3">>, <<"!", "1", "6">>,
     <<"!", "0">>, <<"!", "1", "7">>, <<"<">>, <<">", "!">>}

\* ... and the options, well formed or not
FormatOptions ==
    {<<"b">>, <<"H">>, <<"l">>, <<"j">>, <<"d">>, <<"x">>, <<"i">>, <<"i", "3">>,
     <<"I", "8">>, <<"i", "1", "6">>, <<"i", "1", "7">>, <<"I", "0">>,
     <<"X", "h">>, <<"X", "i", "8">>, <<"X", "j">>, <<"X">>, <<"X", "X">>,
     <<" ">>, <<"q">>}

\* the formats without s and z handed to pack and to packsize
SizeFormats ==
    {p \o a \o b : p \in FormatPrefixes, a \in FormatOptions,
                   b \in FormatOptions \cup {<<>>}}

\* string.pack(fmt, 1, 1): every argument is in the range of every option
PackFormat ==
    /\ libCall.f = "none"
    /\ \E fmt \in SizeFormats :
          /\ libCall' = [f |-> "pack", native |-> libCall.native, fmt |-> fmt]
          /\ libRet' = [f |-> "pack",
                        r |-> stringPack(fmt, <<Int64Word(1), Int64Word(1)>>,
                                         libCall.native)]
    /\ UNCHANGED <<tbl, iter, file, dumpVars, scanVars, numVars, vmVars>>

\* string.packsize(fmt) for the format pack was given
Packsize ==
    /\ libCall.f = "pack" /\ "r" \in DOMAIN libRet
    /\ libCall' = [f |-> "packsize", native |-> libCall.native, fmt |-> libCall.fmt,
                   packed |-> libRet.r]
    /\ libRet' = [f |-> "packsize", r |-> stringPacksize(libCall.fmt, libCall.native)]
    /\ UNCHANGED <<tbl, iter, file, dumpVars, scanVars, numVars, vmVars>>

NextPacksize == PackFormat \/ Packsize

SpecPacksize == InitPack /\ [][NextPacksize]_vars

\* C16: for every format without s and z, with ! alignment, X and i[n]
\* included: when pack succeeds on arguments in range, packsize succeeds and
\* returns the length of the packed string; a format pack refuses as invalid
\* is refused by packsize too.
PacksizeAgrees ==
    libCall.f = "packsize" =>
        /\ libCall.packed.err = NoPackError =>
              /\ libRet.r.err = NoPackError
              /\ libRet.r.n = Len(libCall.packed.s)
        /\ libCall.packed.err.kind = "format" => libRet.r.err # NoPackError

-----------------------------------------------------------------------------
(* The utf8 library: char, codepoint and len. A string is its sequence of  *)
(* bytes; a rune is an integer.                                             *)

MaxNear == 4

MaxRune == 1114111

RuneError == 65533

surrogateMin == 55296

surrogateMax == 57343

\* a continuation byte 10xxxxxx carrying the six bits of x
cont(x) == 128 + (x % 64)

\* utf8.EncodeRune: the bytes of r; a surrogate or a rune out of range is
\* written as RuneError
EncodeRune(r) ==
    LET e == IF r < 0 \/ r > MaxRune \/ (surrogateMin <= r /\ r <= surrogateMax)
             THEN RuneError ELSE r
    IN  IF e <= 127 THEN <<e>>
        ELSE IF e <= 2047 THEN <<192 + (e \div 64), cont(e)>>
        ELSE IF e <= 65535 THEN <<224 + (e \div 4096), cont(e \div 64), cont(e)>>
        ELSE <<240 + (e \div 262144), cont(e \div 4096), cont(e \div 64), cont(e)>>

\* the range the second byte may have after the first byte b0
acceptLo(b0) == IF b0 = 224 THEN 160 ELSE IF b0 = 240 THEN 144 ELSE 128

acceptHi(b0) == IF b0 = 237 THEN 159 ELSE IF b0 = 244 THEN 143 ELSE 191

isCont(b) == 128 <= b /\ b <= 191

\* utf8.DecodeRuneInString: [r, size]; (RuneError, 0) on the empty string,
\* (RuneError, 1) on an invalid or incomplete encoding
DecodeRuneInString(s) ==
    LET n == Len(s)
        bad == [r |-> RuneError, size |-> 1]
    IN  IF n = 0 THEN [r |-> RuneError, size |-> 0]
        ELSE IF s[1] < 128 THEN [r |-> s[1], size |-> 1]
        ELSE IF s[1] < 194 \/ s[1] > 244 THEN bad
        ELSE IF n < 2 \/ s[2] < acceptLo(s[1]) \/ s[2] > acceptHi(s[1]) THEN bad
        ELSE IF s[1] < 224
             THEN [r |-> (s[1] % 32) * 64 + (s[2] % 64), size |-> 2]
        ELSE IF n < 3 \/ ~isCont(s[3]) THEN bad
        ELSE IF s[1] < 240
             THEN [r |-> (s[1] % 16) * 4096 + (s[2] % 64) * 64 + (s[3] % 64),
                   size |-> 3]
        ELSE IF n < 4 \/ ~isCont(s[4]) THEN bad
        ELSE [r |-> (s[1] % 8) * 262144 + (s[2] % 64) * 4096
                        + (s[3] % 64) * 64 + (s[4] % 64),
              size |-> 4]

\* decodeUTF8(s, pos): the rune at the 1-based position pos, its size, ok
decodeUTF8(s, p) ==
    IF p < 1 \/ p > Len(s) THEN [r |-> 0, size |-> 0, ok |-> FALSE]
    ELSE LET d == DecodeRuneInString(SubSeq(s, p, Len(s)))
         IN  IF d.r = RuneError /\ d.size <= 1
             THEN [r |-> 0, size |-> 0, ok |-> FALSE]
             ELSE [r |-> d.r, size |-> d.size, ok |-> TRUE]

utf8PosRelative(p, len) ==
    IF p >= 0 THEN p ELSE IF -p > len THEN 0 ELSE len + p + 1

RECURSIVE utf8CharLoop(_, _, _)
utf8CharLoop(codes, i, buf) ==
    IF i > Len(codes) THEN [err |-> "none", s |-> buf]
    ELSE IF codes[i] < 0 \/ codes[i] > MaxRune
         THEN [err |-> "value out of range", s |-> <<>>]
         ELSE utf8CharLoop(codes, i + 1, buf \o EncodeRune(codes[i]))

\* utf8.char(...): the string of the encodings, or the argument error
utf8Char(codes) == utf8CharLoop(codes, 1, <<>>)

RECURSIVE codepointLoop(_, _, _, _)
codepointLoop(s, p, j, pushed) ==
    IF p > j THEN [err |-> "none", vals |-> pushed]
    ELSE LET d == decodeUTF8(s, p)
         IN  IF ~d.ok THEN [err |-> "invalid UTF-8 code", vals |-> <<>>]
             ELSE codepointLoop(s, p + d.size, j, Append(pushed, d.r))

\* utf8.codepoint(s) with i and j left out: i = 1 and j = i
utf8Codepoint(s) ==
    LET i == utf8PosRelative(1, Len(s))
        j == utf8PosRelative(i, Len(s))
    IN  IF i > j THEN [err |-> "none", vals |-> <<>>]
        ELSE IF i < 1 \/ i > Len(s) \/ j > Len(s)
             THEN [err |-> "out of range", vals |-> <<>>]
             ELSE codepointLoop(s, i, j, <<>>)

RECURSIVE lenLoop(_, _, _, _)
lenLoop(s, p, j, count) ==
    IF p > j THEN [nil |-> FALSE, n |-> count]
    ELSE LET d == decodeUTF8(s, p)
         IN  IF ~d.ok \/ d.r = RuneError THEN [nil |-> TRUE, n |-> p]
             ELSE lenLoop(s, p + d.size, j, count + 1)

\* utf8.len(s) with i and j left out: the number of characters, or nil and
\* the position of the byte it rejects
utf8Len(s) ==
    LET i0 == utf8PosRelative(1, Len(s))
        j0 == utf8PosRelative(Len(s), Len(s))
        i == IF i0 < 1 THEN 1 ELSE i0
        j == IF j0 > Len(s) THEN Len(s) ELSE j0
    IN  IF i > j THEN [nil |-> FALSE, n |-> 0]
        ELSE lenLoop(s, i, j, 0)

\* the code points next to the boundaries of the encoding
CodePoints ==
    UNION {(b - MaxNear)..(b + MaxNear) :
              b \in {0, 128, 2048, surrogateMin, surrogateMax, RuneError,
                     65536, MaxRune}}

InitUtf8 ==
    /\ libCall = [f |-> "none"]
    /\ libRet = [f |-> "none"]
    /\ tbl = [none |-> TRUE] /\ iter = <<>> /\ file = [none |-> TRUE]
    /\ IdleChunk /\ IdleScan /\ IdleNum /\ IdleVM

\* utf8.char(c)
Utf8Char ==
    /\ libCall.f = "none"
    /\ \E c \in CodePoints :
          /\ libCall' = [f |-> "char", c |-> c]
          /\ libRet' = [f |-> "char", r |-> utf8Char(<<c>>)]
    /\ UNCHANGED <<tbl, iter, file, dumpVars, scanVars, numVars, vmVars>>

\* utf8.codepoint(s) on the string utf8.char returned
Utf8Codepoint ==
    /\ libCall.f = "char" /\ libRet.r.err = "none"
    /\ libCall' = [libCall EXCEPT !.f = "codepoint"]
    /\ libRet' = [f |-> "codepoint", r |-> utf8Codepoint(libRet.r.s)]
    /\ UNCHANGED <<tbl, iter, file, dumpVars, scanVars, numVars, vmVars>>

\* utf8.len(s) on the string utf8.char returned
Utf8Len ==
    /\ libCall.f = "char" /\ libRet.r.err = "none"
    /\ libCall' = [libCall EXCEPT !.f = "len"]
    /\ libRet' = [f |-> "len", r |-> utf8Len(libRet.r.s)]
    /\ UNCHANGED <<tbl, iter, file, dumpVars, scanVars, numVars, vmVars>>

NextUtf8 == Utf8Char \/ Utf8Codepoint \/ Utf8Len

SpecUtf8 == InitUtf8 /\ [][NextUtf8]_vars

\* C17: utf8.char raises 'value out of range' exactly for the c outside
\* 0..0x10FFFF, and for every c inside utf8.codepoint(utf8.char(c)) returns
\* c and utf8.len(utf8.char(c)) returns 1
Utf8CharInverse ==
    /\ libCall.f = "char" =>
          IF 0 <= libCall.c /\ libCall.c <= MaxRune
          THEN libRet.r.err = "none"
          ELSE libRet.r.err = "value out of range"
    /\ libCall.f = "codepoint" =>
          libRet.r = [err |-> "none", vals |-> <<libCall.c>>]
    /\ libCall.f = "len" => libRet.r = [nil |-> FALSE, n |-> 1]

-----------------------------------------------------------------------------
(* The io library: open, popen, read and close on one file handle. The     *)
(* file is an os.File: its bytes, the offset of the next Read, whether it  *)
(* may be read, and whether it can seek (a regular file can, the standard  *)
(* input tied to a pipe or a terminal cannot).                             *)

MaxFileLen == 3

MaxRead == 2

FileBytes == {97, 10}

FileContents ==
    UNION {[1..n -> FileBytes] : n \in 0..MaxFileLen}

NoFile == [none |-> TRUE]

\* flags(m): whether the mode lets the file be read, and whether it
\* truncates the file
flags(mode) ==
    CASE mode = "r"  -> [err |-> FALSE, readable |-> TRUE, trunc |-> FALSE]
      [] mode = "r+" -> [err |-> FALSE, readable |-> TRUE, trunc |-> FALSE]
      [] mode = "w"  -> [err |-> FALSE, readable |-> FALSE, trunc |-> TRUE]
      [] mode = "w+" -> [err |-> FALSE, readable |-> TRUE, trunc |-> TRUE]
      [] mode = "a"  -> [err |-> FALSE, readable |-> FALSE, trunc |-> FALSE]
      [] mode = "a+" -> [err |-> FALSE, readable |-> TRUE, trunc |-> FALSE]
      [] OTHER       -> [err |-> TRUE, readable |-> FALSE, trunc |-> FALSE]

OpenModes == {"r", "r+", "w", "w+", "x"}

\* f.Read(buf) with len(buf) = n: the bytes read, the error, the file after
fileRead(f, n) ==
    LET left == Len(f.data) - f.pos
        count == IF left < n THEN left ELSE n
    IN  IF ~f.readable THEN [count |-> 0, err |-> "EBADF", bytes |-> <<>>, f |-> f]
        ELSE IF count = 0 /\ n > 0
             THEN [count |-> 0, err |-> "EOF", bytes |-> <<>>, f |-> f]
             ELSE [count |-> count, err |-> "none",
                   bytes |-> SubSeq(f.data, f.pos + 1, f.pos + count),
                   f |-> [f EXCEPT !.pos = f.pos + count]]

\* f.Seek(offset, io.SeekCurrent): a file that cannot seek is left as it is
\* and the error is returned
fileSeekCurrent(f, offset) ==
    IF f.seekable THEN [f EXCEPT !.pos = f.pos + offset] ELSE f

\* readBytes(l, f, n): what it pushed, what it returned, the file after
readBytes(f, n) ==
    IF n = 0
    THEN LET rd == fileRead(f, 1)
         IN  IF rd.count > 0
             THEN [pushed |-> StrV(<<>>), ok |-> TRUE,
                   f |-> fileSeekCurrent(rd.f, -1)]
             ELSE IF rd.err = "EOF"
                  THEN [pushed |-> NilV, ok |-> FALSE, f |-> rd.f]
                  ELSE [pushed |-> StrV(<<>>), ok |-> TRUE, f |-> rd.f]
    ELSE LET rd == fileRead(f, n)
         IN  IF rd.count > 0
             THEN [pushed |-> StrV(rd.bytes), ok |-> TRUE, f |-> rd.f]
             ELSE [pushed |-> NilV, ok |-> FALSE, f |-> rd.f]

\* read(l, f, argIndex) with the one argument n: the values it returns (the
\* loop breaks before it counts a failed item) and the file after
ioRead(f, n) ==
    LET one == readBytes(f, n)
    IN  [results |-> IF one.ok THEN <<one.pushed>> ELSE <<>>,
         pushed |-> one.pushed, f |-> one.f]

\* the value an assignment takes from the results of a call
firstResult(results) == IF results = <<>> THEN NilV ELSE results[1]

InitFile ==
    /\ file = NoFile
    /\ libCall = [f |-> "none"] /\ libRet = [f |-> "none"]
    /\ tbl = [none |-> TRUE] /\ iter = <<>>
    /\ IdleChunk /\ IdleScan /\ IdleNum /\ IdleVM

\* io.open(name, mode) on a file with the contents data
IoOpen ==
    /\ file = NoFile
    /\ \E data \in FileContents, mode \in OpenModes :
          LET fl == flags(mode)
          IN  /\ libCall' = [f |-> "open", mode |-> mode]
              /\ IF fl.err
                 THEN /\ libRet' = [f |-> "open", err |-> "invalid mode"]
                      /\ file' = file
                 ELSE /\ libRet' = [f |-> "open", err |-> "none"]
                      /\ file' = [data |-> IF fl.trunc THEN <<>> ELSE data,
                                  pos |-> 0, readable |-> fl.readable,
                                  seekable |-> TRUE, closed |-> FALSE,
                                  std |-> FALSE]
    /\ UNCHANGED <<tbl, iter, dumpVars, scanVars, numVars, vmVars>>

\* io.stdin, registered on os.Stdin: a redirected file, or a pipe or a
\* terminal that cannot seek
IoStdin ==
    /\ file = NoFile
    /\ \E data \in FileContents, seekable \in BOOLEAN :
          file' = [data |-> data, pos |-> 0, readable |-> TRUE,
                   seekable |-> seekable, closed |-> FALSE, std |-> TRUE]
    /\ libCall' = [f |-> "stdin"]
    /\ libRet' = [f |-> "stdin", err |-> "none"]
    /\ UNCHANGED <<tbl, iter, dumpVars, scanVars, numVars, vmVars>>

\* io.popen(cmd, mode)
IoPopen ==
    /\ file = NoFile
    /\ \E cmd \in {"exit 0", "exit 42"}, mode \in {"r", "w"} :
          libCall' = [f |-> "popen", cmd |-> cmd, mode |-> mode]
    /\ libRet' = [f |-> "popen", err |-> "'popen' not supported"]
    /\ file' = file
    /\ UNCHANGED <<tbl, iter, dumpVars, scanVars, numVars, vmVars>>

\* f:read(n)
FileRead ==
    /\ file # NoFile
    /\ \E n \in 0..MaxRead :
          /\ libCall' = [f |-> "read", n |-> n, before |-> file]
          /\ IF file.closed
             THEN /\ libRet' = [f |-> "read", err |-> "attempt to use a closed file",
                                results |-> <<>>]
                  /\ file' = file
             ELSE /\ libRet' = [f |-> "read", err |-> "none",
                                results |-> ioRead(file, n).results]
                  /\ file' = ioRead(file, n).f
    /\ UNCHANGED <<tbl, iter, dumpVars, scanVars, numVars, vmVars>>

\* f:close(): closeHelper calls the close function of the stream, which for
\* a standard file is dontClose
FileClose ==
    /\ file # NoFile /\ ~file.closed
    /\ libCall' = [f |-> "close"]
    /\ IF file.std
       THEN /\ libRet' = [f |-> "close",
                          results |-> <<NilV, StrV("cannot close standard file")>>]
            /\ file' = file
       ELSE /\ libRet' = [f |-> "close", results |-> <<BoolV(TRUE)>>]
            /\ file' = [file EXCEPT !.closed = TRUE]
    /\ UNCHANGED <<tbl, iter, dumpVars, scanVars, numVars, vmVars>>

NextFile == IoOpen \/ IoStdin \/ IoPopen \/ FileRead \/ FileClose

SpecFile == InitFile /\ [][NextFile]_vars

\* C18: io.popen(cmd [, mode]) raises no error and leaves an open file
\* handle, readable in the default mode and writable in mode "w"
PopenOpensHandle ==
    libCall.f = "popen" =>
        /\ libRet.err = "none"
        /\ file # NoFile

\* C19: f:read(0) on an open file returns the empty string when a byte
\* remains and nil at the end of the file, and the file is where it was
ReadZeroTestsEOF ==
    (libCall.f = "read" /\ libCall.n = 0 /\ ~libCall.before.closed) =>
        /\ firstResult(libRet.results) =
              IF libCall.before.pos < Len(libCall.before.data)
              THEN StrV(<<>>) ELSE NilV
        /\ file = libCall.before

-----------------------------------------------------------------------------
(* The limit of a numeric for loop (types.go)                              *)

MaxCounter == 4

\* forLimit(limitVal, step): the integer limit, and whether an integer loop
\* can be used
forLimit(limitVal, step, undef) ==
    IF limitVal.t = "int64" THEN Converted(limitVal.w, TRUE)
    ELSE IF limitVal.t = "float64" THEN
        IF floatToInteger(limitVal.w, undef).ok
        THEN Converted(floatToInteger(limitVal.w, undef).i, TRUE)
        ELSE IF IntLess(Zeros(8), step)
        THEN IF FloatLess(Zeros(8), limitVal.w)
             THEN Converted(maxInt64, TRUE)
             ELSE Converted(minInt64, TRUE)
        ELSE IF FloatLess(limitVal.w, Zeros(8))
             THEN Converted(minInt64, TRUE)
             ELSE Converted(maxInt64, TRUE)
    ELSE Converted(Zeros(8), FALSE)

ForSteps == {Int64Word(-1), Int64Word(1)}

InitFor ==
    /\ argB \in NumValues /\ argC \in {IntV(s) : s \in ForSteps}
    /\ numOut = [op |-> "none"]
    /\ IdleChunk /\ IdleScan /\ IdleVM /\ IdleLib

\* forLimit(b, c)
ForLimit ==
    /\ numOut.op = "none"
    /\ \E undef \in Undefs :
          LET r == forLimit(argB, argC.w, undef)
          IN  numOut' = [op |-> "forLimit", i |-> r.i, ok |-> r.ok]
    /\ UNCHANGED <<argB, argC, dumpVars, scanVars, vmVars, libVars>>

NextFor == ForLimit

SpecFor == InitFor /\ [][NextFor]_vars

-----------------------------------------------------------------------------
(* Properties of the loop limit                                             *)

IntLessEq(a, b) == a = b \/ IntLess(a, b)

\* the float64 f, finite and within -2^63 <= f < 2^63, is an integer
FloatIsIntegral(f) == FloatEq(Float64OfInt(Int64OfFloat(f, Zeros(8))), f)

\* the largest integer at most f, and the least integer at least f, for a
\* finite f with -2^63 <= f < 2^63
FloatFloor(f) ==
    IF FloatIsIntegral(f) \/ FloatSign(f) = 0 THEN Int64OfFloat(f, Zeros(8))
    ELSE Pred(Int64OfFloat(f, Zeros(8)))

FloatCeil(f) ==
    IF FloatIsIntegral(f) \/ FloatSign(f) = 1 THEN Int64OfFloat(f, Zeros(8))
    ELSE WordMulAdd(Int64OfFloat(f, Zeros(8)), 1, 1)

\* i <= f and i >= f as numbers, for an int64 i and a float64 f
IntLessEqFloat(i, f) ==
    /\ ~FloatIsNaN(f)
    /\ \/ FloatGEq(f, pow2_63Float)
       \/ ~FloatLess(f, negPow2_63Float) /\ IntLessEq(i, FloatFloor(f))

IntGreaterEqFloat(i, f) ==
    /\ ~FloatIsNaN(f)
    /\ \/ FloatLess(f, negPow2_63Float)
       \/ ~FloatGEq(f, pow2_63Float) /\ IntLessEq(FloatCeil(f), i)

\* counter values: the ends of int64, the small ones, and those at the limit
\* forLimit returned
ForCounters ==
    {minInt64, maxInt64, numOut.i, Pred(numOut.i), WordMulAdd(numOut.i, 1, 1)}
        \cup {Int64Word(k) : k \in (0 - MaxCounter)..MaxCounter}

\* C20: for an int64 limit forLimit returns the limit itself; for a float
\* limit the integer limit L it returns lets the loop run exactly the
\* counter values the float limit allows: i <= L iff i <= limit when the
\* step is positive, i >= L iff i >= limit when it is negative
ForLimitExact ==
    (numOut.op = "forLimit" /\ numOut.ok) =>
        /\ argB.t = "int64" => numOut.i = argB.w
        /\ argB.t = "float64" =>
              \A i \in ForCounters :
                  IF IntLess(Zeros(8), argC.w)
                  THEN IntLessEq(i, numOut.i) <=> IntLessEqFloat(i, argB.w)
                  ELSE IntLessEq(numOut.i, i) <=> IntGreaterEqFloat(i, argB.w)

-----------------------------------------------------------------------------
(* read with a list of formats, and the iterator of lines (io.go)          *)

MaxFormats == 2

\* the formats read is given: byte counts, "l", "L", "a", and one that is
\* no format
ReadFormats ==
    {KInt(n) : n \in 0..MaxRead} \cup {KStr("l"), KStr("L"), KStr("a"), KStr("x")}

FormatLists ==
    UNION {[1..k -> ReadFormats] : k \in 0..MaxFormats}

\* the loop of readLineFromFile after f.Read returned rd: one byte at a
\* time up to the newline, the end of the file or an error
RECURSIVE readLineLoop(_, _, _, _)
readLineLoop(rd, keepEOL, sb, hasContent) ==
    IF rd.count = 0 THEN [f |-> rd.f, sb |-> sb, hasContent |-> hasContent]
    ELSE IF rd.bytes[1] = 10
         THEN [f |-> rd.f, sb |-> IF keepEOL THEN Append(sb, 10) ELSE sb,
               hasContent |-> TRUE]
         ELSE readLineLoop(fileRead(rd.f, 1), keepEOL, Append(sb, rd.bytes[1]), TRUE)

\* what readLineFromFile pushes and returns once its loop has ended in r
lineRead(r) ==
    IF r.hasContent THEN [pushed |-> StrV(r.sb), ok |-> TRUE, f |-> r.f]
    ELSE [pushed |-> NilV, ok |-> FALSE, f |-> r.f]

\* readLineFromFile(l, f, keepEOL)
readLineFromFile(f, keepEOL) ==
    lineRead(readLineLoop(fileRead(f, 1), keepEOL, <<>>, FALSE))

\* readAll(l, f): ioutil.ReadAll reads to the end of the file, which is no
\* error; a file that may not be read is one
readAll(f) ==
    IF ~f.readable THEN [pushed |-> NilV, ok |-> FALSE, f |-> f]
    ELSE [pushed |-> StrV(SubSeq(f.data, f.pos + 1, Len(f.data))), ok |-> TRUE,
          f |-> [f EXCEPT !.pos = Len(f.data)]]

\* readOne(l, f, argIndex): what it pushed, what it returned, the file
\* after; raised when the format is none
readOne(f, fmt) ==
    IF fmt.t = "int" THEN readBytes(f, fmt.i)
    ELSE IF fmt.s = "l" THEN readLineFromFile(f, FALSE)
    ELSE IF fmt.s = "L" THEN readLineFromFile(f, TRUE)
    ELSE IF fmt.s = "a" THEN readAll(f)
    ELSE [pushed |-> NilV, ok |-> FALSE, f |-> f, raised |-> TRUE]

isRaised(one) == "raised" \in DOMAIN one

\* the loop of read: argIndex counts the formats that succeeded, and the
\* break leaves it at the format that failed; readFormatsStep is the body
\* of the loop once readOne returned one
RECURSIVE readFormatsLoop(_, _, _, _)
RECURSIVE readFormatsStep(_, _, _, _, _)
readFormatsStep(one, f, fmts, argIndex, pushed) ==
    IF isRaised(one)
    THEN [f |-> f, pushed |-> pushed, argIndex |-> argIndex,
          failed |-> FALSE, raised |-> TRUE]
    ELSE IF ~one.ok
    THEN [f |-> one.f, pushed |-> Append(pushed, one.pushed),
          argIndex |-> argIndex, failed |-> TRUE, raised |-> FALSE]
    ELSE readFormatsLoop(one.f, fmts, argIndex + 1, Append(pushed, one.pushed))

readFormatsLoop(f, fmts, argIndex, pushed) ==
    IF argIndex > Len(fmts)
    THEN [f |-> f, pushed |-> pushed, argIndex |-> argIndex, failed |-> FALSE,
          raised |-> FALSE]
    ELSE readFormatsStep(readOne(f, fmts[argIndex]), f, fmts, argIndex, pushed)

\* what read returns once its loop has ended in r: the count is
\* argIndex - first, and the caller gets the count topmost values
readResult(r) ==
    [f |-> r.f, pushed |-> r.pushed, count |-> r.argIndex - 1,
     results |-> SubSeq(r.pushed, Len(r.pushed) - (r.argIndex - 1) + 1,
                        Len(r.pushed)),
     failed |-> r.failed, raised |-> r.raised, tried |-> Len(r.pushed)]

\* read(l, f, argIndex) with the formats fmts ("l" when there is none): the
\* values pushed, the count returned, the values the caller gets, the file
\* after
readFormats(f, fmts) ==
    readResult(readFormatsLoop(f, IF fmts = <<>> THEN <<KStr("l")>> ELSE fmts,
                               1, <<>>))

NoLines == <<>>

InitRead ==
    /\ file = NoFile /\ iter = NoLines
    /\ libCall = [f |-> "none"] /\ libRet = [f |-> "none"]
    /\ tbl = [none |-> TRUE]
    /\ IdleChunk /\ IdleScan /\ IdleNum /\ IdleVM

\* the call f:read(fmts) that ended in r
readCall(fmts, r) ==
    /\ libCall' = [f |-> "read", fmts |-> fmts, before |-> file]
    /\ libRet' = [f |-> "read",
                  err |-> IF r.raised THEN "invalid format" ELSE "none",
                  results |-> r.results, pushed |-> r.pushed,
                  failed |-> r.failed, tried |-> r.tried]
    /\ file' = r.f

\* f:read(...) on an open file
FileReadFormats ==
    /\ file # NoFile /\ ~file.closed /\ iter = NoLines
    /\ \E fmts \in FormatLists : readCall(fmts, readFormats(file, fmts))
    /\ UNCHANGED <<tbl, iter, dumpVars, scanVars, numVars, vmVars>>

\* f:lines(...): the iterator keeps the file, the formats and whether to
\* close the file at the end
FileLines ==
    /\ file # NoFile /\ ~file.closed /\ iter = NoLines
    /\ \E fmts \in FormatLists :
          /\ iter' = <<[fmts |-> fmts, shouldClose |-> FALSE]>>
          /\ libCall' = [f |-> "lines", fmts |-> fmts]
    /\ libRet' = [f |-> "lines", err |-> "none"]
    /\ UNCHANGED <<tbl, file, dumpVars, scanVars, numVars, vmVars>>

\* io.lines(name, ...): opens the file for reading and closes it at the end
IoLines ==
    /\ file = NoFile /\ iter = NoLines
    /\ \E data \in FileContents, fmts \in FormatLists :
          /\ file' = [data |-> data, pos |-> 0, readable |-> TRUE,
                      seekable |-> TRUE, closed |-> FALSE, std |-> FALSE]
          /\ iter' = <<[fmts |-> fmts, shouldClose |-> TRUE]>>
          /\ libCall' = [f |-> "lines", fmts |-> fmts]
    /\ libRet' = [f |-> "lines", err |-> "none"]
    /\ UNCHANGED <<tbl, dumpVars, scanVars, numVars, vmVars>>

\* readLine after its call of read ended in r: the assertion on the count,
\* then the values of the iteration or its end
readLineAfter(r) ==
    IF r.raised
    THEN /\ libRet' = [f |-> "readLine", err |-> "invalid format",
                       resultCount |-> 0, results |-> <<>>]
         /\ file' = r.f
    ELSE IF r.count <= 0
    THEN /\ libRet' = [f |-> "readLine", err |-> "assertion failed",
                       resultCount |-> r.count, results |-> <<>>]
         /\ file' = r.f
    ELSE IF r.results[1] # NilV
    THEN /\ libRet' = [f |-> "readLine", err |-> "none",
                       resultCount |-> r.count, results |-> r.results]
         /\ file' = r.f
    ELSE IF r.count > 1
    THEN /\ libRet' = [f |-> "readLine", err |-> "read error",
                       resultCount |-> r.count, results |-> <<>>]
         /\ file' = r.f
    ELSE /\ libRet' = [f |-> "readLine", err |-> "none",
                       resultCount |-> r.count, results |-> <<>>]
         /\ file' = [r.f EXCEPT !.closed = iter[1].shouldClose]

\* readLine, the iterator function
LinesNext ==
    /\ iter # NoLines
    /\ libCall' = [f |-> "readLine", fmts |-> iter[1].fmts, before |-> file]
    /\ IF file.closed
       THEN /\ libRet' = [f |-> "readLine", err |-> "file is already closed",
                          resultCount |-> 0, results |-> <<>>]
            /\ file' = file
       ELSE readLineAfter(readFormats(file, iter[1].fmts))
    /\ UNCHANGED <<tbl, iter, dumpVars, scanVars, numVars, vmVars>>

NextRead == IoOpen \/ FileReadFormats \/ FileLines \/ IoLines \/ LinesNext

SpecRead == InitRead /\ [][NextRead]_vars

\* C21: read with the formats f1..fk returns the k values read when no
\* format fails, and when fj is the first that fails the j - 1 values read
\* followed by nil, j values in all, with no format after fj attempted
ReadReturnsResultsSoFar ==
    (libCall.f = "read" /\ libRet.err = "none") =>
        /\ libRet.results = libRet.pushed
        /\ libRet.failed =>
              /\ Len(libRet.results) = libRet.tried
              /\ libRet.results[libRet.tried] = NilV
        /\ ~libRet.failed =>
              Len(libRet.results) =
                  (IF libCall.fmts = <<>> THEN 1 ELSE Len(libCall.fmts))

\* C22: each time readLine calls read the count read returns is greater
\* than 0
ReadLineCountPositive ==
    (libCall.f = "readLine" /\ libRet.err \notin {"file is already closed",
                                                   "invalid format"}) =>
        libRet.resultCount > 0

-----------------------------------------------------------------------------
(* string.gsub and the pattern matcher it runs (string.go). A string is    *)
(* the sequence of its characters; positions count from 0 as in the code.  *)

MaxSubject == 3

MaxPattern == 2

NoMatch == [end |-> 0, ok |-> FALSE]

Matched(s) == [end |-> s, ok |-> TRUE]

\* singleMatch(c, p) for a pattern without '%' and '[': the class at
\* pattern[p] is '.' or a plain character
singleMatch(pattern, c, p) ==
    IF p >= Len(pattern) THEN FALSE
    ELSE IF pattern[p + 1] = "." THEN TRUE
    ELSE c = pattern[p + 1]

\* the first loop of maxExpand: how many characters from s on match the item
RECURSIVE maxCount(_, _, _, _, _)
maxCount(src, pattern, s, p, i) ==
    IF s + i < Len(src) /\ singleMatch(pattern, src[s + i + 1], p)
    THEN maxCount(src, pattern, s, p, i + 1)
    ELSE i

RECURSIVE match(_, _, _, _)
RECURSIVE maxBack(_, _, _, _, _)
RECURSIVE minExpand(_, _, _, _, _)

\* the result res of a match when it succeeded, else the other one
orElse(res, other) == IF res.ok THEN res ELSE other

\* the second loop of maxExpand: the rest of the pattern is tried after i
\* characters, then after one fewer
maxBack(src, pattern, s, ep, i) ==
    IF i < 0 THEN NoMatch
    ELSE IF match(src, pattern, s + i, ep).ok
         THEN match(src, pattern, s + i, ep)
         ELSE maxBack(src, pattern, s, ep, i - 1)

\* maxExpand(s, p, ep)
maxExpand(src, pattern, s, p, ep) ==
    maxBack(src, pattern, s, ep, maxCount(src, pattern, s, p, 0))

\* minExpand(s, p, ep)
minExpand(src, pattern, s, p, ep) ==
    IF match(src, pattern, s, ep).ok THEN match(src, pattern, s, ep)
    ELSE IF s < Len(src) /\ singleMatch(pattern, src[s + 1], p)
         THEN minExpand(src, pattern, s + 1, p, ep)
         ELSE NoMatch

\* match(s, p) for a pattern without '(', ')', '%' and '[': the end of the
\* match of pattern[p:] at s
match(src, pattern, s, p) ==
    IF p >= Len(pattern) THEN Matched(s)
    ELSE IF pattern[p + 1] = "$" /\ p + 1 = Len(pattern)
    THEN IF s = Len(src) THEN Matched(s) ELSE NoMatch
    ELSE IF p + 1 < Len(pattern) /\ pattern[p + 2] = "*"
    THEN maxExpand(src, pattern, s, p, p + 2)
    ELSE IF p + 1 < Len(pattern) /\ pattern[p + 2] = "+"
    THEN IF s < Len(src) /\ singleMatch(pattern, src[s + 1], p)
         THEN maxExpand(src, pattern, s + 1, p, p + 2)
         ELSE NoMatch
    ELSE IF p + 1 < Len(pattern) /\ pattern[p + 2] = "-"
    THEN minExpand(src, pattern, s, p, p + 2)
    ELSE IF p + 1 < Len(pattern) /\ pattern[p + 2] = "?"
    THEN IF s < Len(src) /\ singleMatch(pattern, src[s + 1], p)
         THEN orElse(match(src, pattern, s + 1, p + 2),
                     match(src, pattern, s, p + 2))
         ELSE match(src, pattern, s, p + 2)
    ELSE IF s >= Len(src) \/ ~singleMatch(pattern, src[s + 1], p) THEN NoMatch
    ELSE match(src, pattern, s + 1, p + 1)

\* the state of the loop of stringGsub: n, spos, lastMatch, the buffer b;
\* ends lists the end of every match substituted, tries counts the calls
\* of match, stop tells the loop has left through break
GsubStart ==
    [n |-> 0, spos |-> 0, lastMatch |-> -1, b |-> <<>>, ends |-> <<>>,
     tries |-> 0, stop |-> FALSE]

\* one iteration that substitutes every match, also one that ends where
\* the last one ended
gsubStepNoLastMatch(s, repl, anchor, st, m) ==
    IF m.ok
    THEN [st EXCEPT !.n = st.n + 1, !.spos = m.end, !.lastMatch = m.end,
                    !.b = st.b \o repl, !.ends = Append(st.ends, m.end),
                    !.tries = st.tries + 1, !.stop = anchor]
    ELSE IF st.spos < Len(s)
    THEN [st EXCEPT !.b = Append(st.b, s[st.spos + 1]), !.spos = st.spos + 1,
                    !.tries = st.tries + 1, !.stop = anchor]
    ELSE [st EXCEPT !.tries = st.tries + 1, !.stop = TRUE]

\* one iteration of the loop, m being what ms.match(spos, 0) returned
gsubStep(s, repl, anchor, st, m) ==
    IF m.ok /\ m.end # st.lastMatch
    THEN [st EXCEPT !.n = st.n + 1, !.spos = m.end, !.lastMatch = m.end,
                    !.b = st.b \o repl, !.ends = Append(st.ends, m.end),
                    !.tries = st.tries + 1, !.stop = anchor]
    ELSE IF st.spos < Len(s)
    THEN [st EXCEPT !.b = Append(st.b, s[st.spos + 1]), !.spos = st.spos + 1,
                    !.tries = st.tries + 1, !.stop = anchor]
    ELSE [st EXCEPT !.tries = st.tries + 1, !.stop = TRUE]

RECURSIVE gsubLoop(_, _, _, _, _, _)
gsubLoop(s, pattern, repl, anchor, maxRepl, st) ==
    IF st.stop \/ ~(st.n < maxRepl) THEN st
    ELSE gsubLoop(s, pattern, repl, anchor, maxRepl,
                  gsubStep(s, repl, anchor, st, match(s, pattern, st.spos, 0)))

\* the remainder added, and what gsub returns
gsubResult(s, st) ==
    [s |-> IF st.spos <= Len(s)
           THEN st.b \o SubSeq(s, st.spos + 1, Len(s)) ELSE st.b,
     n |-> st.n, ends |-> st.ends, tries |-> st.tries]

isAnchored(p) == Len(p) > 0 /\ p[1] = "^"

\* string.gsub(s, p, repl [, n]) with a string repl that has no '%'; NoLimit
\* stands for the argument left out
NoLimit == -2

stringGsub(s, p, repl, limit) ==
    gsubResult(s,
        gsubLoop(s, IF isAnchored(p) THEN SubSeq(p, 2, Len(p)) ELSE p, repl,
                 isAnchored(p), IF limit = NoLimit THEN Len(s) + 1 ELSE limit,
                 GsubStart))

Subjects == UNION {[1..k -> {"a", "b"}] : k \in 0..MaxSubject}

Patterns ==
    UNION {[1..k -> {"a", ".", "*", "+", "-", "?", "$", "^"}] : k \in 0..MaxPattern}

Limits == {NoLimit, -1, 0, 1, 2, MaxSubject + 2}

InitGsub ==
    /\ \E s \in Subjects, p \in Patterns, limit \in Limits :
          libCall = [f |-> "none", s |-> s, p |-> p, limit |-> limit]
    /\ libRet = [f |-> "none"]
    /\ tbl = [none |-> TRUE] /\ iter = <<>> /\ file = [none |-> TRUE]
    /\ IdleChunk /\ IdleScan /\ IdleNum /\ IdleVM

\* string.gsub(s, p, "x" [, n])
Gsub ==
    /\ libCall.f = "none"
    /\ libCall' = [libCall EXCEPT !.f = "gsub"]
    /\ libRet' = [f |-> "gsub",
                  r |-> stringGsub(libCall.s, libCall.p, <<"x">>, libCall.limit)]
    /\ UNCHANGED <<tbl, iter, file, dumpVars, scanVars, numVars, vmVars>>

NextGsub == Gsub

SpecGsub == InitGsub /\ [][NextGsub]_vars

\* the ends of the matches substituted are strictly increasing positions of
\* the subject, the count returned is their number, and an anchored pattern
\* is tried once
GsubProgress ==
    /\ \A i \in 1..Len(libRet.r.ends) :
          /\ 0 <= libRet.r.ends[i] /\ libRet.r.ends[i] <= Len(libCall.s)
          /\ i > 1 => libRet.r.ends[i - 1] < libRet.r.ends[i]
    /\ libRet.r.n = Len(libRet.r.ends)
    /\ libRet.r.tries <= 2 * Len(libCall.s) + 2
    /\ isAnchored(libCall.p) => libRet.r.tries <= 1

Min(a, b) == IF a < b THEN a ELSE b

\* C23 as stated: the matches substituted end at strictly increasing
\* positions, their number is the count returned and is at most
\* min(n, len(s) + 1), and the loop ends, an anchored pattern tried once
GsubAtMostLimit ==
    libCall.f = "gsub" =>
        /\ GsubProgress
        /\ libRet.r.n <= Len(libCall.s) + 1
        /\ libCall.limit # NoLimit => libRet.r.n <= Min(libCall.limit, Len(libCall.s) + 1)

\* C23: the matches substituted end at strictly increasing positions, their
\* number is the count returned and is at most min(n, len(s) + 1) for a
\* limit n that is not negative and 0 for one that is, and the loop ends,
\* an anchored pattern tried once
GsubRejectsSameEnd ==
    libCall.f = "gsub" =>
        /\ GsubProgress
        /\ libRet.r.n <= Len(libCall.s) + 1
        /\ (libCall.limit # NoLimit /\ libCall.limit >= 0) =>
              libRet.r.n <= libCall.limit
        /\ (libCall.limit # NoLimit /\ libCall.limit < 0) => libRet.r.n = 0

\* an empty match after a match that ended at the same position was turned
\* away: "a*" on "ab" substitutes at the ends 1 and 2 only
GsubRejectsSameEndWitness ==
    /\ libCall.f = "gsub" /\ libCall.s = <<"a", "b">> /\ libCall.p = <<"a", "*">>
    /\ libCall.limit = NoLimit
    /\ libRet.r.ends = <<1, 2>> /\ libRet.r.s = <<"x", "b", "x">>

-----------------------------------------------------------------------------
(* string.rep (string.go). The strings are given by their lengths.         *)

MaxRepLen == 3

maxStringSize == 2147483647

\* string.rep(s, n, sep) for len(s) = ls and len(sep) = lsep: the error
\* raised and the length of the string pushed. The sum of two lengths does
\* not wrap for the lengths a string can have.
stringRep(ls, n, lsep) ==
    IF n <= 0 THEN [err |-> "none", len |-> 0]
    ELSE IF ls + lsep < ls \/ ls + lsep >= maxStringSize \div n
    THEN [err |-> "resulting string too large", len |-> 0]
    ELSE IF lsep = 0 THEN [err |-> "none", len |-> ls * n]
    ELSE [err |-> "none", len |-> ls + (n - 1) * (lsep + ls)]

\* the counts: none and few repetitions, and those about maxStringSize / t
\* for the sums t of two lengths
RepCounts ==
    {-1, 0, 1, 2, 3}
        \cup {maxStringSize \div t - d : t \in 1..(2 * MaxRepLen), d \in 0..2}
        \cup {maxStringSize \div t + 1 : t \in 2..(2 * MaxRepLen)}

InitRep ==
    /\ \E ls \in 0..MaxRepLen, lsep \in 0..MaxRepLen, n \in RepCounts :
          libCall = [f |-> "none", ls |-> ls, lsep |-> lsep, n |-> n]
    /\ libRet = [f |-> "none"]
    /\ tbl = [none |-> TRUE] /\ iter = <<>> /\ file = [none |-> TRUE]
    /\ IdleChunk /\ IdleScan /\ IdleNum /\ IdleVM

\* string.rep(s, n, sep)
StringRep ==
    /\ libCall.f = "none"
    /\ libCall' = [libCall EXCEPT !.f = "rep"]
    /\ libRet' = [f |-> "rep", r |-> stringRep(libCall.ls, libCall.n, libCall.lsep)]
    /\ UNCHANGED <<tbl, iter, file, dumpVars, scanVars, numVars, vmVars>>

NextRep == StringRep

SpecRep == InitRep /\ [][NextRep]_vars

\* n*ls + (n-1)*lsep <= maxStringSize for n > 0, computed without leaving
\* the 32-bit integers
RepFits(ls, n, lsep) ==
    ls + lsep = 0 \/ n - 1 <= (maxStringSize - ls) \div (ls + lsep)

\* C24: string.rep(s, n, sep) returns the empty string for n <= 0, a string
\* of length n*len(s) + (n-1)*len(sep) when that is at most maxStringSize,
\* and raises 'resulting string too large' exactly when it is more
RepLength ==
    libCall.f = "rep" =>
        IF libCall.n <= 0 THEN libRet.r = [err |-> "none", len |-> 0]
        ELSE IF RepFits(libCall.ls, libCall.n, libCall.lsep)
        THEN /\ libRet.r.err = "none"
             /\ libRet.r.len = libCall.n * libCall.ls + (libCall.n - 1) * libCall.lsep
        ELSE libRet.r.err = "resulting string too large"

====
